---- MODULE Spec2Model ----
(***************************************************************************)
(* Model of AnomRecorder's motion-triggered rolling recorder               *)
(* (src/src/services/recording.py) as it is driven by the camera           *)
(* application (src/src/ui/app.py).                                        *)
(*                                                                         *)
(* Time is counted in clock units; clock_res is the number of units in one *)
(* second, so pre_seconds and post_seconds are held in units and a file    *)
(* name's YYYYMMDD_HHMMSS stamp is the whole second  now \div clock_res.   *)
(* A frame is identified by the number of the update call that brought it. *)
(***************************************************************************)
EXTENDS Integers, Sequences, FiniteSets, TLC

\* ------------------------------------------------------------- bounds
\* clock units per second in the exploratory specification
UnitsPerSec == 2
\* largest pre_seconds / post_seconds explored, in clock units
MaxPre == 2
MaxPost == 2
\* largest target_fps explored (frames per second)
MaxFps == 2
\* largest clock advance between two update calls, in clock units
MaxStep == 2
\* number of update calls explored per recorder
MaxTicks == 4
\* largest person_count passed to update
MaxPersons == 1

\* ------------------------------------------------------------- constants
\* RecorderConfig defaults: pre_seconds = 3.0, post_seconds = 5.0, target_fps = 30
DefaultPreSeconds == 3
DefaultPostSeconds == 5
DefaultTargetFps == 30
\* the application owns two camera slots, each with its own recorder
NumSlots == 2

Slots == 0 .. (NumSlots - 1)

\* Optional values: None, or a one-element sequence holding the value.
None == <<>>
Some(x) == <<x>>
NoTime == -1

Max(a, b) == IF a >= b THEN a ELSE b

VARIABLES
    clock_res,       \* clock units per second (fixed at Init)
    cfg,             \* RecorderConfig: pre_seconds, post_seconds (units), target_fps
    now,             \* time.time(), in clock units
    num_cams,        \* CameraApp.num_cams
    closed,          \* CameraApp.root has been destroyed
    prebuffer,       \* RollingRecorder._prebuffer, per slot
    writer,          \* RollingRecorder._writer, per slot: 0 (None) or an index into writers
    recording,       \* RollingRecorder._recording
    last_motion_ts,  \* RollingRecorder._last_motion_ts
    start_ts,        \* RollingRecorder._start_ts
    event_path,      \* RollingRecorder._event_path
    persons_max,     \* RollingRecorder._persons_max
    writers,         \* every cv2.VideoWriter the factories created
    call,            \* per slot: the arguments of the last update call
    ret,             \* per slot: what the last update call returned
    hist,            \* per slot: observations over the calls made so far
    rstate,          \* a ReconnectState object
    rclock,          \* time.time() as the reconnect logic reads it, in clock units
    robs,            \* the last ReconnectState call and what it returned
    reconnect_states,\* CameraApp.reconnect_states, per slot
    caps,            \* CameraApp.caps, per slot: an open capture or None
    indices,         \* CameraApp.indices, per slot
    camera_sources,  \* CameraApp.camera_sources, per slot
    handles,         \* per slot: the captures opened for it and not released
    aobs,            \* the last camera operation of the application
    files,           \* the *.avi files of CameraApp.record_dir
    storage_limit,   \* CameraApp.storage_limit_gb, in size units
    qobs,            \* the last run of the quota enforcer
    zoom,            \* a ZoomState object
    zobs,            \* the ZoomState calls made so far and what they returned
    crop,            \* the last crop_zoom call and what it gave
    refresh,         \* CameraApp._refresh_lock and the camera-refresh worker thread
    after_queue,     \* callbacks scheduled with root.after(0, ...), oldest first
    ui,              \* what the camera lists and the scan dialog show
    scanner,         \* the dialog's CameraScanner and its scan worker thread
    muts,            \* which thread has assigned which shared object
    tick             \* CameraApp.update_frames: its position and what it did

recVars == <<clock_res, cfg, now, num_cams, closed, prebuffer, writer, recording,
             last_motion_ts, start_ts, event_path, persons_max, writers, call, ret, hist>>

reconnectVars == <<rstate, rclock, robs>>
cameraVars == <<reconnect_states, caps, indices, camera_sources, handles, aobs>>
quotaVars == <<files, storage_limit, qobs>>
zoomVars == <<zoom, zobs>>
cropVars == <<crop>>
threadVars == <<refresh, after_queue, ui, scanner, muts>>
tickVars == <<tick>>

vars == <<recVars, reconnectVars, cameraVars, quotaVars, zoomVars, cropVars,
          threadVars, tickVars>>

\* ------------------------------------------------------------- RollingRecorder

\* deque(maxlen=int(pre_seconds * target_fps))
Capacity(c, res) == (c.pre_seconds * c.target_fps) \div res

\* an append that never drops the oldest entry
DequeAppend_Unbounded(q, e, cap) == Append(q, e)

\* deque.append on a deque with maxlen cap: the oldest entry is dropped when full
DequeAppend(q, e, cap) ==
    IF cap = 0 THEN <<>>
    ELSE IF Len(q) >= cap THEN Append(Tail(q), e)
    ELSE Append(q, e)

\* recording_cam{slot}_{YYYYMMDD_HHMMSS}.avi
RecordingPath(s, t, res) == <<s, t \div res>>

\* a flush that writes the whole buffer
Flush_Unfiltered(q, cutoff) == [i \in DOMAIN q |-> q[i].frame]

\* for ts, buffered_frame in list(self._prebuffer): if ts >= cutoff: write
\* the buffered frames with ts >= cutoff, in buffer order
Flush(q, cutoff) ==
    LET InWindow(e) == e.ts >= cutoff
        kept == SelectSeq(q, InWindow)
    IN  [i \in DOMAIN kept |-> kept[i].frame]

\* What self._writer_factory(frame_size) can do: return an opened writer ("ok"),
\* raise, return None, or return a writer whose isOpened() is False ("unopened").
OpenOutcomes == {"ok", "raise", "none", "unopened"}
OpenFailures == OpenOutcomes \ {"ok"}

\* a factory result accepted without the isOpened() test
WriterOpened_NoIsOpenedTest(outcome) == outcome \in {"ok", "unopened"}

\* _open_writer returns the writer only if it is not None and isOpened()
WriterOpened(outcome) == outcome = "ok"

\* the factory built a cv2.VideoWriter object (and _default_writer_factory has
\* stored its path in _event_path)
WriterCreated(outcome) == outcome \in {"ok", "unopened"}

\* self._writer.write(frame) on writer w
WriteFrame(ws, w, frame) == [ws EXCEPT ![w].frames = Append(@, frame)]

\* a finish that drops the writer without releasing it
ReleaseWriter_Skipped(ws, w) == ws

\* self._writer.release() on writer w
ReleaseWriter(ws, w) == [ws EXCEPT ![w].released = TRUE]

\* the post-roll test with the difference taken the wrong way round
PostRollElapsed_Swapped(t, lm, post) == lm # NoTime /\ (lm - t) >= post

\* self._last_motion_ts is not None and (now - self._last_motion_ts) >= post_seconds
PostRollElapsed(t, lm, post) == lm # NoTime /\ (t - lm) >= post

\* RollingRecorder.update(frame_bgr, motion_trigger, person_count) on the recorder
\* of slot s, called dt clock units after the previous reading of the clock; outcome
\* is what opening a writer would give. The value is the state after the call.
Upd(s, dt, motion_trigger, person_count, outcome) ==
    LET t == now + dt
        frame == hist[s].ticks + 1
        pb == DequeAppend(prebuffer[s], [ts |-> t, frame |-> frame],
                          Capacity(cfg, clock_res))
        \* if motion_trigger and not self._recording:
        opening == motion_trigger /\ ~recording[s]
        created == opening /\ WriterCreated(outcome)
        opened == opening /\ WriterOpened(outcome)
        path == RecordingPath(s, t, clock_res)
        ep1 == IF created THEN Some(path) ELSE event_path[s]
        cutoff == t - cfg.pre_seconds
        ws1 == IF created
               THEN Append(writers, [slot |-> s, path |-> path, opened |-> opened,
                                     released |-> FALSE,
                                     frames |-> IF opened THEN Flush(pb, cutoff) ELSE <<>>])
               ELSE writers
        w1 == IF opening THEN (IF opened THEN Len(ws1) ELSE 0) ELSE writer[s]
        rec1 == IF opening THEN opened ELSE recording[s]
        st1 == IF opened THEN t ELSE start_ts[s]
        lm1 == IF opened THEN t ELSE last_motion_ts[s]
        pm1 == IF opened THEN Max(persons_max[s], person_count) ELSE persons_max[s]
        new_event == IF opened THEN Some([path |-> ep1, start |-> t]) ELSE None
        \* if self._recording and self._writer is not None:
        active == rec1 /\ w1 # 0
        ws2 == IF active THEN WriteFrame(ws1, w1, frame) ELSE ws1
        lm2 == IF active /\ motion_trigger THEN t ELSE lm1
        pm2 == IF active /\ motion_trigger THEN Max(pm1, person_count) ELSE pm1
        finish == active /\ PostRollElapsed(t, lm2, cfg.post_seconds)
        ws3 == IF finish THEN ReleaseWriter(ws2, w1) ELSE ws2
        \* duration = now - (self._start_ts or now)
        duration == t - (IF st1 = NoTime \/ st1 = 0 THEN t ELSE st1)
        finished_event == IF finish
                          THEN Some([path |-> ep1, end |-> t, duration |-> duration,
                                     persons_max |-> pm2])
                          ELSE None
        h == hist[s]
    IN  [now |-> t,
         prebuffer |-> pb,
         writer |-> IF finish THEN 0 ELSE w1,
         recording |-> IF finish THEN FALSE ELSE rec1,
         last_motion_ts |-> IF finish THEN NoTime ELSE lm2,
         start_ts |-> IF finish THEN NoTime ELSE st1,
         event_path |-> IF finish THEN None ELSE ep1,
         persons_max |-> IF finish THEN 0 ELSE pm2,
         writers |-> ws3,
         call |-> [motion_trigger |-> motion_trigger, person_count |-> person_count,
                   frame |-> frame, time |-> t,
                   open |-> IF opening THEN outcome ELSE "skip",
                   was_recording |-> recording[s]],
         ret |-> [new_event |-> new_event, finished_event |-> finished_event],
         hist |-> [ticks |-> h.ticks + 1,
                   opens |-> IF opening THEN h.opens + 1 ELSE h.opens,
                   T |-> IF motion_trigger /\ (opened \/ recording[s]) THEN t ELSE h.T,
                   seen_persons |-> IF opened THEN person_count
                                    ELSE IF active THEN Max(h.seen_persons, person_count)
                                    ELSE h.seen_persons,
                   new_events |-> h.new_events \o new_event,
                   finished_events |-> h.finished_events \o finished_event]]

\* the state after the call, stored
Store(s, r) ==
    /\ now' = r.now
    /\ prebuffer' = [prebuffer EXCEPT ![s] = r.prebuffer]
    /\ writer' = [writer EXCEPT ![s] = r.writer]
    /\ recording' = [recording EXCEPT ![s] = r.recording]
    /\ last_motion_ts' = [last_motion_ts EXCEPT ![s] = r.last_motion_ts]
    /\ start_ts' = [start_ts EXCEPT ![s] = r.start_ts]
    /\ event_path' = [event_path EXCEPT ![s] = r.event_path]
    /\ persons_max' = [persons_max EXCEPT ![s] = r.persons_max]
    /\ writers' = r.writers
    /\ call' = [call EXCEPT ![s] = r.call]
    /\ ret' = [ret EXCEPT ![s] = r.ret]
    /\ hist' = [hist EXCEPT ![s] = r.hist]

\* CameraApp.update_frames reaches recorders[slot].update only while the window
\* exists, and for slot 1 not in the one-camera layout.
SlotLive(s) == ~closed /\ (s = 0 \/ num_cams # 1)

\* one call of recorders[s].update from the tick loop
Update(s) ==
    /\ SlotLive(s)
    /\ hist[s].ticks < MaxTicks
    /\ \E dt \in 0 .. MaxStep, motion_trigger \in BOOLEAN,
          person_count \in 0 .. MaxPersons, outcome \in OpenOutcomes :
          /\ (motion_trigger /\ ~recording[s]) \/ outcome = "ok"
          /\ Store(s, Upd(s, dt, motion_trigger, person_count, outcome))
    /\ UNCHANGED <<clock_res, cfg, num_cams, closed>>
    /\ UNCHANGED <<reconnectVars, cameraVars, quotaVars, zoomVars, cropVars, threadVars, tickVars>>

\* what update leaves behind when a write raises: no events are returned
WriteRaised == [raised |-> "write"]

\* RollingRecorder.update in which self._writer.write raises: the k-th write of
\* the pre-roll flush for k >= 1, the write of the call's own frame for k = 0.
\* The writer has been opened and assigned by then; the statements after the
\* raising write are not reached. The value is the state the exception leaves.
UpdWriteRaises(s, dt, motion_trigger, person_count, k) ==
    LET t == now + dt
        frame == hist[s].ticks + 1
        pb == DequeAppend(prebuffer[s], [ts |-> t, frame |-> frame],
                          Capacity(cfg, clock_res))
        opening == motion_trigger /\ ~recording[s]
        path == RecordingPath(s, t, clock_res)
        flush == Flush(pb, t - cfg.pre_seconds)
        in_flush == opening /\ k >= 1
        \* the else branch ran to its end: the recording has started
        started == opening /\ ~in_flush
        ws1 == IF opening
               THEN Append(writers, [slot |-> s, path |-> path, opened |-> TRUE,
                                     released |-> FALSE,
                                     frames |-> IF in_flush THEN SubSeq(flush, 1, k - 1)
                                                ELSE flush])
               ELSE writers
        h == hist[s]
    IN  [now |-> t,
         prebuffer |-> pb,
         writer |-> IF opening THEN Len(ws1) ELSE writer[s],
         recording |-> IF started THEN TRUE ELSE recording[s],
         last_motion_ts |-> IF started THEN t ELSE last_motion_ts[s],
         start_ts |-> IF started THEN t ELSE start_ts[s],
         event_path |-> IF opening THEN Some(path) ELSE event_path[s],
         persons_max |-> IF started THEN Max(persons_max[s], person_count)
                         ELSE persons_max[s],
         writers |-> ws1,
         call |-> [motion_trigger |-> motion_trigger, person_count |-> person_count,
                   frame |-> frame, time |-> t,
                   open |-> IF opening THEN "ok" ELSE "skip",
                   was_recording |-> recording[s]],
         ret |-> WriteRaised,
         hist |-> [h EXCEPT !.ticks = @ + 1,
                            !.opens = IF opening THEN @ + 1 ELSE @,
                            !.T = IF started THEN t ELSE @,
                            !.seen_persons = IF started THEN person_count ELSE @]]

\* one call of recorders[s].update from the tick loop in which a write raises;
\* update_frames logs the exception and goes on to the next tick
UpdateWriteRaises(s) ==
    /\ SlotLive(s)
    /\ hist[s].ticks < MaxTicks
    /\ \E dt \in 0 .. MaxStep, motion_trigger \in BOOLEAN,
          person_count \in 0 .. MaxPersons, k \in 0 .. Capacity(cfg, clock_res) :
          /\ (motion_trigger /\ ~recording[s]) \/ (recording[s] /\ writer[s] # 0)
          /\ k >= 1 => /\ motion_trigger /\ ~recording[s]
                       /\ k <= Len(Flush(DequeAppend(prebuffer[s],
                                                     [ts |-> now + dt,
                                                      frame |-> hist[s].ticks + 1],
                                                     Capacity(cfg, clock_res)),
                                         now + dt - cfg.pre_seconds))
          /\ Store(s, UpdWriteRaises(s, dt, motion_trigger, person_count, k))
    /\ UNCHANGED <<clock_res, cfg, num_cams, closed>>
    /\ UNCHANGED <<reconnectVars, cameraVars, quotaVars, zoomVars, cropVars, threadVars, tickVars>>

\* CameraApp.on_close: every capture held is released (and stays stored) and
\* the window is destroyed; the recorders are not touched.
OnClose ==
    /\ ~closed
    /\ closed' = TRUE
    /\ handles' = [s \in Slots |-> IF caps[s] # None THEN handles[s] - 1 ELSE handles[s]]
    /\ UNCHANGED <<clock_res, cfg, now, num_cams, prebuffer, writer, recording,
                   last_motion_ts, start_ts, event_path, persons_max, writers,
                   call, ret, hist>>
    /\ UNCHANGED <<reconnect_states, caps, indices, camera_sources, aobs>>
    /\ UNCHANGED <<reconnectVars, quotaVars, zoomVars, cropVars, threadVars, tickVars>>

\* ------------------------------------------------------------- unbounded runs
(***************************************************************************)
(* update reads the clock only through differences (now - ts, now -        *)
(* last_motion_ts, now - start_ts), so a run of unboundedly many calls is  *)
(* followed in a finite state space by moving the origin of time after     *)
(* every call: the clock is set back to LiveBase and every time stamp the  *)
(* recorder holds moves with it, one older than every window the recorder  *)
(* looks at resting at OldTime.  What the calls leave behind and update    *)
(* never reads is dropped: released writers, the frames already written,   *)
(* event pairs that are complete, the call counters (so every frame        *)
(* carries the same number), and of the observations everything but the    *)
(* trigger flag and the events' paths.                                     *)
(***************************************************************************)
OldTime == 1
LiveBase == Max(MaxPre, MaxPost) + OldTime + 1

Rebase(ts, d) == IF ts = NoTime THEN NoTime ELSE Max(OldTime, ts - d)

RebaseBuffer(q, d) == [i \in DOMAIN q |-> [q[i] EXCEPT !.ts = Rebase(@, d)]]

\* events reduced to their paths
PathOfNew(ev) == [i \in DOMAIN ev |-> [ev[i] EXCEPT !.start = OldTime]]

PathOfFinished(ev) ==
    [i \in DOMAIN ev |->
        [ev[i] EXCEPT !.end = OldTime, !.duration = 0, !.persons_max = 0]]

\* the writers still open, in order, their written frames dropped
RECURSIVE OpenWriters(_)
OpenWriters(ws) ==
    IF ws = <<>> THEN <<>>
    ELSE (IF Head(ws).opened /\ ~Head(ws).released
          THEN <<[Head(ws) EXCEPT !.frames = <<>>]>> ELSE <<>>)
         \o OpenWriters(Tail(ws))

\* the index of writer w among the writers still open
OpenIndex(ws, w) ==
    IF w = 0 THEN 0
    ELSE Cardinality({i \in 1 .. w : ws[i].opened /\ ~ws[i].released})

\* an event pair that is complete is dropped once a later event has begun
PendingNew(h) ==
    IF Len(h.new_events) >= 2 /\ Len(h.finished_events) >= 1
    THEN Tail(h.new_events) ELSE h.new_events

PendingFinished(h) ==
    IF Len(h.new_events) >= 2 /\ Len(h.finished_events) >= 1
    THEN Tail(h.finished_events) ELSE h.finished_events

\* the state r after a call on slot s, with the origin of time moved by d
LiveStore(s, r, d) ==
    LET pick(old, new) == [u \in Slots |-> IF u = s THEN new ELSE old[u]]
        hs == pick(hist, r.hist)
        cs == pick(call, r.call)
        rs == pick(ret, r.ret)
        wr == pick(writer, r.writer)
    IN  /\ now' = r.now - d
        /\ prebuffer' = [u \in Slots |-> RebaseBuffer(pick(prebuffer, r.prebuffer)[u], d)]
        /\ writer' = [u \in Slots |-> OpenIndex(r.writers, wr[u])]
        /\ recording' = pick(recording, r.recording)
        /\ last_motion_ts' = [u \in Slots |-> Rebase(pick(last_motion_ts, r.last_motion_ts)[u], d)]
        /\ start_ts' = [u \in Slots |-> Rebase(pick(start_ts, r.start_ts)[u], d)]
        /\ event_path' = pick(event_path, r.event_path)
        /\ persons_max' = pick(persons_max, r.persons_max)
        /\ writers' = OpenWriters(r.writers)
        /\ call' = [u \in Slots |->
                      [motion_trigger |-> cs[u].motion_trigger,
                       was_recording |-> cs[u].was_recording,
                       person_count |-> 0, frame |-> 0, time |-> 0, open |-> "skip"]]
        /\ ret' = [u \in Slots |->
                     [new_event |-> PathOfNew(rs[u].new_event),
                      finished_event |-> PathOfFinished(rs[u].finished_event)]]
        /\ hist' = [u \in Slots |->
                     [ticks |-> 0, opens |-> 0, T |-> NoTime, seen_persons |-> 0,
                      new_events |-> PathOfNew(PendingNew(hs[u])),
                      finished_events |-> PathOfFinished(PendingFinished(hs[u]))]]

\* one call of recorders[s].update from the tick loop, the clock having advanced
\* by one of the steps in dts; no bound on the number of calls
LiveTick(s, dts) ==
    /\ SlotLive(s)
    /\ \E dt \in dts, motion_trigger \in BOOLEAN,
          person_count \in 0 .. MaxPersons, outcome \in OpenOutcomes :
          /\ (motion_trigger /\ ~recording[s]) \/ outcome = "ok"
          /\ LiveStore(s, Upd(s, dt, motion_trigger, person_count, outcome),
                       (now + dt) - LiveBase)
    /\ UNCHANGED <<clock_res, cfg, num_cams, closed>>
    /\ UNCHANGED <<reconnectVars, cameraVars, quotaVars, zoomVars, cropVars, threadVars, tickVars>>

LiveUpdate(s) == LiveTick(s, 0 .. MaxStep)

\* ------------------------------------------------------------- ReconnectState
(***************************************************************************)
(* src/src/utils/reconnect.py.  Delays and time stamps are in clock units, *)
(* UnitsPerSec to the second.  time.time() is far later than any delay     *)
(* after the epoch, so the clock starts at StartClock, beyond every        *)
(* max_delay; last_attempt_time = 0 is then an attempt made long ago.      *)
(***************************************************************************)

\* ReconnectState's field defaults (seconds, calls)
DefaultMaxAttempts == 5
DefaultBaseDelay == 1
DefaultMaxDelay == 30
\* ReconnectState(max_attempts=3) of the tests and of Scenario D
ScenarioMaxAttempts == 3

\* seconds of clock followed after construction
MaxElapsed == 10
\* largest step of the clock between two calls, in clock units
MaxWait == 3
\* record_attempt calls followed before a reset
MaxCalls == 5

Min(a, b) == IF a <= b THEN a ELSE b

RECURSIVE Pow2(_)
Pow2(n) == IF n <= 0 THEN 1 ELSE 2 * Pow2(n - 1)

StartClock == DefaultMaxDelay * UnitsPerSec + 1
EndClock == StartClock + MaxElapsed * UnitsPerSec

\* delay = min(self.base_delay * (2 ** self.attempt), self.max_delay)
BackoffDelay(st) == Min(st.base_delay * Pow2(st.attempt), st.max_delay)

\* should_attempt that forgets the enabled flag
ShouldAttempt_IgnoresEnabled(st, t) ==
    IF st.attempt >= st.max_attempts THEN FALSE
    ELSE (t - st.last_attempt_time) >= BackoffDelay(st)

\* should_attempt that waits for the delay to be exceeded
ShouldAttempt_Strict(st, t) ==
    IF ~st.enabled THEN FALSE
    ELSE IF st.attempt >= st.max_attempts THEN FALSE
    ELSE (t - st.last_attempt_time) > BackoffDelay(st)

\* should_attempt that forgets the attempt budget
ShouldAttempt_NoMaxTest(st, t) ==
    IF ~st.enabled THEN FALSE
    ELSE (t - st.last_attempt_time) >= BackoffDelay(st)

\* ReconnectState.should_attempt at clock reading t
ShouldAttempt(st, t) ==
    IF ~st.enabled THEN FALSE
    ELSE IF st.attempt >= st.max_attempts THEN FALSE
    ELSE (t - st.last_attempt_time) >= BackoffDelay(st)

\* record_attempt that counts the attempt without stamping its time
RecordAttempt_NoStamp(st, t) == [st EXCEPT !.attempt = @ + 1]

\* ReconnectState.record_attempt at clock reading t
RecordAttempt(st, t) == [st EXCEPT !.attempt = @ + 1, !.last_attempt_time = t]

\* ReconnectState.reset
ReconnectReset(st) == [st EXCEPT !.attempt = 0, !.last_attempt_time = 0]

\* ReconnectState()
DefaultReconnectState ==
    [enabled |-> TRUE, max_attempts |-> DefaultMaxAttempts,
     base_delay |-> DefaultBaseDelay * UnitsPerSec,
     max_delay |-> DefaultMaxDelay * UnitsPerSec,
     attempt |-> 0, last_attempt_time |-> 0]

\* what the calls left behind: the name of the last one, what should_attempt
\* returned, for record_attempt whether should_attempt() held in the state it
\* was called in, and the clock reading of the last record_attempt
NoCall == [op |-> "init", ret |-> None, due |-> None, at |-> NoTime]

\* the clock moves on between two calls
ReconnectAdvance ==
    /\ \E dt \in 1 .. MaxWait :
          /\ rclock + dt <= EndClock
          /\ rclock' = rclock + dt
    /\ robs' = [op |-> "advance", ret |-> None, due |-> None, at |-> robs.at]
    /\ UNCHANGED <<rstate, recVars, cameraVars, quotaVars, zoomVars, cropVars, threadVars, tickVars>>

\* state.should_attempt()
CallShouldAttempt ==
    /\ robs' = [op |-> "should_attempt", ret |-> Some(ShouldAttempt(rstate, rclock)),
                due |-> None, at |-> robs.at]
    /\ UNCHANGED <<rstate, rclock, recVars, cameraVars, quotaVars, zoomVars, cropVars, threadVars, tickVars>>

\* state.record_attempt()
CallRecordAttempt ==
    /\ rstate.attempt < MaxCalls
    /\ rstate' = RecordAttempt(rstate, rclock)
    /\ robs' = [op |-> "record_attempt", ret |-> None,
                due |-> Some(ShouldAttempt(rstate, rclock)), at |-> rclock]
    /\ UNCHANGED <<rclock, recVars, cameraVars, quotaVars, zoomVars, cropVars, threadVars, tickVars>>

\* state.reset()
CallReset ==
    /\ rstate' = ReconnectReset(rstate)
    /\ robs' = [op |-> "reset", ret |-> None, due |-> None, at |-> NoTime]
    /\ UNCHANGED <<rclock, recVars, cameraVars, quotaVars, zoomVars, cropVars, threadVars, tickVars>>

\* the caller the reconnect logic is written for: record_attempt() is called
\* only where should_attempt() has just returned True
GuardedRecordAttempt ==
    /\ ShouldAttempt(rstate, rclock)
    /\ CallRecordAttempt

\* state.enabled = enabled, as _on_autoreconnect_change assigns it
SetEnabled ==
    /\ \E enabled \in BOOLEAN : rstate' = [rstate EXCEPT !.enabled = enabled]
    /\ robs' = [op |-> "set_enabled", ret |-> None, due |-> None, at |-> robs.at]
    /\ UNCHANGED <<rclock, recVars, cameraVars, quotaVars, zoomVars, cropVars, threadVars, tickVars>>

\* the constructor arguments followed: ReconnectState(enabled=..., max_attempts=...,
\* base_delay=..., max_delay=...), the last attempt never made or stamped now
ReconnectConfigs ==
    [enabled : BOOLEAN,
     max_attempts : {0, ScenarioMaxAttempts, DefaultMaxAttempts},
     base_delay : {0, UnitsPerSec \div 2, DefaultBaseDelay * UnitsPerSec},
     max_delay : {2 * UnitsPerSec, DefaultMaxDelay * UnitsPerSec},
     attempt : {0},
     last_attempt_time : {0, StartClock}]

InitReconnect ==
    /\ rstate = DefaultReconnectState
    /\ rclock = StartClock
    /\ robs = NoCall

\* Scenario D: ReconnectState(base_delay=1, max_attempts=3); record_attempt is
\* called after simulated delays of exactly 1 s, 2 s and 4 s, should_attempt at
\* any time, and the clock runs on after the third call.
ScenarioDelays == <<DefaultBaseDelay, 2 * DefaultBaseDelay, 4 * DefaultBaseDelay>>

\* time since the previous record_attempt, or since construction
SinceMark ==
    IF rstate.attempt = 0 THEN rclock - StartClock
    ELSE rclock - rstate.last_attempt_time

ScenarioDWait ==
    /\ IF rstate.attempt < Len(ScenarioDelays)
       THEN SinceMark < ScenarioDelays[rstate.attempt + 1] * UnitsPerSec
       ELSE rclock < EndClock
    /\ rclock' = rclock + 1
    /\ robs' = [op |-> "advance", ret |-> None, due |-> None, at |-> robs.at]
    /\ UNCHANGED <<rstate, recVars, cameraVars, quotaVars, zoomVars, cropVars, threadVars, tickVars>>

ScenarioDRecord ==
    /\ rstate.attempt < Len(ScenarioDelays)
    /\ SinceMark = ScenarioDelays[rstate.attempt + 1] * UnitsPerSec
    /\ CallRecordAttempt

\* ------------------------------------------------------------- camera slots
(***************************************************************************)
(* CameraApp's capture handles and its reconnect bookkeeping               *)
(* (src/src/ui/app.py).  A source is a USB index or an IP camera object;   *)
(* an open capture is named by the source it was opened on.                *)
(***************************************************************************)

\* _attempt_reconnect calls followed per slot
MaxReconnects == 2
\* clock units followed by the camera operations
MaxCameraElapsed == 2

UsbSources == {[kind |-> "usb", index |-> i] : i \in 0 .. 1}
Sources == UsbSources \cup {[kind |-> "ip", index |-> 0]}

\* cv2.VideoCapture(...): opened, created but not opened, or raising
CaptureOutcomes == {"open", "unopened", "raise"}

\* the camera fields of the application as one value
CameraFields == [caps |-> caps, indices |-> indices, camera_sources |-> camera_sources,
                 handles |-> handles]

\* a stop_camera that forgets the capture without releasing it
StopCam_NoRelease(app, slot) == [app EXCEPT !.caps[slot] = None, !.indices[slot] = None]

\* CameraApp.stop_camera: the slot's capture, if there is one, is released
\* and forgotten
StopCam(app, slot) ==
    [app EXCEPT !.caps[slot] = None, !.indices[slot] = None,
                !.handles[slot] = IF app.caps[slot] # None THEN @ - 1 ELSE @]

\* CameraApp.start_camera: nothing is done for the source the slot already
\* shows; otherwise the slot is stopped first, and the new capture is kept
\* only if it opened (one that did not open is released at once, one whose
\* construction raised was never there)
StartCam(app, slot, source, outcome) ==
    IF app.camera_sources[slot] = Some(source) /\ app.caps[slot] # None THEN app
    ELSE LET stopped == StopCam(app, slot)
             assigned == [stopped EXCEPT
                            !.camera_sources[slot] = Some(source),
                            !.indices[slot] = IF source.kind = "ip" THEN None
                                              ELSE Some(source.index)]
         IN  CASE outcome = "raise" -> stopped
               [] outcome = "unopened" -> assigned
               [] OTHER -> [assigned EXCEPT !.caps[slot] = Some(source),
                                            !.handles[slot] = @ + 1]

StoreCamera(app) ==
    /\ caps' = app.caps
    /\ indices' = app.indices
    /\ camera_sources' = app.camera_sources
    /\ handles' = app.handles

\* the user picks a camera for a slot
StartCamera(slot) ==
    /\ \E source \in Sources, outcome \in CaptureOutcomes :
          StoreCamera(StartCam(CameraFields, slot, source, outcome))
    /\ aobs' = [op |-> "start_camera", slot |-> slot, success |-> caps'[slot] # None]
    /\ UNCHANGED <<reconnect_states, reconnectVars, recVars, quotaVars, zoomVars, cropVars, threadVars, tickVars>>

StopCamera(slot) ==
    /\ StoreCamera(StopCam(CameraFields, slot))
    /\ aobs' = [op |-> "stop_camera", slot |-> slot, success |-> FALSE]
    /\ UNCHANGED <<reconnect_states, reconnectVars, recVars, quotaVars, zoomVars, cropVars, threadVars, tickVars>>

\* CameraApp._attempt_reconnect
AttemptReconnect(slot) ==
    /\ reconnect_states[slot].attempt < MaxReconnects
    /\ IF indices[slot] = None
       THEN /\ aobs' = [op |-> "no_reconnect", slot |-> slot, success |-> FALSE]
            /\ UNCHANGED <<reconnect_states, caps, indices, camera_sources, handles>>
       ELSE /\ reconnect_states' =
                  [reconnect_states EXCEPT ![slot] = RecordAttempt(@, rclock)]
            /\ \E outcome \in CaptureOutcomes :
                  StoreCamera(StartCam(CameraFields, slot,
                                       [kind |-> "usb", index |-> indices[slot][1]],
                                       outcome))
            /\ aobs' = [op |-> "attempt_reconnect", slot |-> slot,
                        success |-> caps'[slot] # None]
    /\ UNCHANGED <<reconnectVars, recVars, quotaVars, zoomVars, cropVars, threadVars, tickVars>>

\* CameraApp._on_autoreconnect_change
OnAutoreconnectChange ==
    /\ \E enabled \in BOOLEAN :
          reconnect_states' = [s \in Slots |->
                                 [reconnect_states[s] EXCEPT !.enabled = enabled]]
    /\ aobs' = [op |-> "autoreconnect", slot |-> 0, success |-> FALSE]
    /\ UNCHANGED <<caps, indices, camera_sources, handles, reconnectVars, recVars,
                   quotaVars, zoomVars, cropVars, threadVars, tickVars>>

\* the clock moves on between two camera operations
CameraAdvance ==
    /\ rclock < StartClock + MaxCameraElapsed
    /\ rclock' = rclock + 1
    /\ UNCHANGED <<rstate, robs, cameraVars, recVars, quotaVars, zoomVars, cropVars, threadVars, tickVars>>

\* CameraApp.__init__
InitCamera ==
    /\ reconnect_states = [s \in Slots |-> DefaultReconnectState]
    /\ caps = [s \in Slots |-> None]
    /\ indices = [s \in Slots |-> None]
    /\ camera_sources = [s \in Slots |-> None]
    /\ handles = [s \in Slots |-> 0]
    /\ aobs = [op |-> "init", slot |-> 0, success |-> FALSE]

\* ------------------------------------------------------------- storage quota
(***************************************************************************)
(* CameraApp._enforce_storage_limit (src/src/ui/app.py).  A recording file *)
(* is a record of its name, modification time and size; sizes and the      *)
(* limit are counted in units of the smallest limit the code accepts       *)
(* (0.0001 GB).  file.stat() fails for a file that has gone since glob     *)
(* listed it; file.unlink() fails for a file that cannot be removed and    *)
(* stays.                                                                  *)
(***************************************************************************)

\* recording files the directory holds at most
MaxFiles == 3
\* modification times 1 .. MaxMtime
MaxMtime == 3
\* file sizes 0 .. MaxSize
MaxSize == 2
\* storage_limit_gb settings 0 .. MaxLimit
MaxLimit == 3
\* runs of the enforcer followed
MaxRuns == 2

\* storage_limit_gb = tk.DoubleVar(value=5.0)
DefaultStorageLimitGb == 5
\* size units to the GB: the floor of the limit, 0.0001 GB, is one unit
LimitUnitsPerGb == 10000
\* max(0.0001, storage_limit_gb), in size units
MinLimit == 1

FileNames == 1 .. MaxFiles
FileRecords == [name : FileNames, mtime : 1 .. MaxMtime, size : 0 .. MaxSize]

\* limit_b = int(max(0.0001, float(self.storage_limit_gb.get())) * (1024 ** 3))
LimitB(limit) == Max(MinLimit, limit)

\* tuple order of (st_mtime, file, st_size)
FileBefore(f, g) ==
    \/ f.mtime < g.mtime
    \/ f.mtime = g.mtime /\ f.name < g.name
    \/ f.mtime = g.mtime /\ f.name = g.name /\ f.size <= g.size

RECURSIVE SortFiles_ByName(_)
\* a listing left in directory order
SortFiles_ByName(S) ==
    IF S = {} THEN <<>>
    ELSE LET first == CHOOSE f \in S : \A g \in S : f.name <= g.name
         IN  <<first>> \o SortFiles_ByName(S \ {first})

RECURSIVE SortFiles(_)
\* files.sort()
SortFiles(S) ==
    IF S = {} THEN <<>>
    ELSE LET first == CHOOSE f \in S : \A g \in S : FileBefore(f, g)
         IN  <<first>> \o SortFiles(S \ {first})

RECURSIVE SumSizes(_)
\* sum(size for _, _, size in files)
SumSizes(S) ==
    IF S = {} THEN 0
    ELSE LET f == CHOOSE g \in S : TRUE IN f.size + SumSizes(S \ {f})

RECURSIVE DeleteLoop_StopsOnFailure(_, _, _, _, _, _)
\* a loop that gives up at the first unlink that fails
DeleteLoop_StopsOnFailure(sorted, idx, total, limit_b, failing, log) ==
    IF total > limit_b /\ idx <= Len(sorted)
    THEN LET file == sorted[idx]
             ok == file.name \notin failing
             entry == [file |-> file, ok |-> ok, total |-> total]
         IN  IF ok
             THEN DeleteLoop_StopsOnFailure(sorted, idx + 1, total - file.size,
                                            limit_b, failing, Append(log, entry))
             ELSE [log |-> Append(log, entry), total |-> total]
    ELSE [log |-> log, total |-> total]

RECURSIVE DeleteLoop_OneTooMany(_, _, _, _, _, _)
\* a loop that goes on while the total is at the limit
DeleteLoop_OneTooMany(sorted, idx, total, limit_b, failing, log) ==
    IF total >= limit_b /\ idx <= Len(sorted)
    THEN LET file == sorted[idx]
             ok == file.name \notin failing
         IN  DeleteLoop_OneTooMany(sorted, idx + 1,
                        IF ok THEN total - file.size ELSE total, limit_b, failing,
                        Append(log, [file |-> file, ok |-> ok, total |-> total]))
    ELSE [log |-> log, total |-> total]

RECURSIVE DeleteLoop(_, _, _, _, _, _)
\* while total > limit_b and idx < len(files): the unlink attempts in order,
\* each with the running total it was made at, and the total left at the end
DeleteLoop(sorted, idx, total, limit_b, failing, log) ==
    IF total > limit_b /\ idx <= Len(sorted)
    THEN LET file == sorted[idx]
             ok == file.name \notin failing
         IN  DeleteLoop(sorted, idx + 1,
                        IF ok THEN total - file.size ELSE total, limit_b, failing,
                        Append(log, [file |-> file, ok |-> ok, total |-> total]))
    ELSE [log |-> log, total |-> total]

\* the files of log that were unlinked
Unlinked(log) == {log[i].file : i \in {j \in DOMAIN log : log[j].ok}}

\* no run of the enforcer to look back on
NoRun == [op |-> "init", runs |-> 0, listed |-> <<>>, limit_b |-> 0,
          failing |-> {}, log |-> <<>>, total |-> 0]

\* _enforce_storage_limit on the directory fs under the limit: gone are the
\* names whose stat fails, failing the names whose unlink fails; the files
\* left and the record of the run
EnforcePass(fs, gone, failing, limit) ==
    LET listed == {f \in fs : f.name \notin gone}
        sorted == SortFiles(listed)
        limit_b == LimitB(limit)
        run == DeleteLoop(sorted, 1, SumSizes(listed), limit_b, failing, <<>>)
    IN  [files |-> listed \ Unlinked(run.log),
         obs |-> [op |-> "enforce", runs |-> 0,
                  listed |-> sorted, limit_b |-> limit_b,
                  failing |-> failing \ gone, log |-> run.log,
                  total |-> run.total]]

\* one run of _enforce_storage_limit
EnforceStorageLimit ==
    /\ qobs.runs < MaxRuns
    /\ \E gone \in SUBSET {f.name : f \in files},
          failing \in SUBSET {f.name : f \in files} :
          LET pass == EnforcePass(files, gone, failing, storage_limit)
          IN  /\ files' = pass.files
              /\ qobs' = [pass.obs EXCEPT !.runs = qobs.runs + 1]
    /\ UNCHANGED <<storage_limit, recVars, reconnectVars, cameraVars, zoomVars, cropVars, threadVars, tickVars>>

\* a recorder's writer leaves a new file in the directory
NewRecording ==
    /\ \E f \in FileRecords :
          /\ f.name \notin {g.name : g \in files}
          /\ files' = files \cup {f}
    /\ qobs' = [NoRun EXCEPT !.op = "new_recording", !.runs = qobs.runs]
    /\ UNCHANGED <<storage_limit, recVars, reconnectVars, cameraVars, zoomVars, cropVars, threadVars, tickVars>>

\* the user edits the storage limit
SetStorageLimit ==
    /\ \E limit \in 0 .. MaxLimit :
          /\ limit # storage_limit
          /\ storage_limit' = limit
    /\ qobs' = [NoRun EXCEPT !.op = "set_limit", !.runs = qobs.runs]
    /\ UNCHANGED <<files, recVars, reconnectVars, cameraVars, zoomVars, cropVars, threadVars, tickVars>>

\* directories of recording files: each name absent or with a time and a size
Directories ==
    {{[name |-> n, mtime |-> d[n][1], size |-> d[n][2]] :
         n \in {m \in FileNames : d[m] # <<>>}} :
       d \in [FileNames -> {<<>>} \cup ((1 .. MaxMtime) \X (0 .. MaxSize))]}

\* CameraApp.__init__ on an empty recordings directory
InitQuota ==
    /\ files = {}
    /\ storage_limit = DefaultStorageLimitGb * LimitUnitsPerGb
    /\ qobs = NoRun

\* ------------------------------------------------------------- ZoomState
(***************************************************************************)
(* src/src/utils/zoom.py.  A zoom factor is counted in quarters (its       *)
(* default step, 0.25, is one unit and 1.0 is ZoomOne), whose sums and     *)
(* differences are exact in floating point; a pan coordinate is counted in *)
(* tenths of the normalized range (0.5 is PanHalf, 1.0 is PanOne), the     *)
(* unit of the application's pan buttons, and stands for the floating      *)
(* point value nearest to it.                                              *)
(***************************************************************************)

\* the factor 1.0, the pan coordinates 0.5 and 1.0
ZoomOne == 4
PanHalf == 5
PanOne == 10
\* ZoomState's field defaults: min_factor 0.5, step 0.25
DefaultMinFactor == 2
DefaultStep == 1

\* largest factor followed (2.0)
MaxZoom == 8
\* largest step followed, in either sign
MaxZoomStep == 2
\* ZoomState calls followed
MaxZoomCalls == 5

Abs(x) == IF x < 0 THEN -x ELSE x

\* zoom_in without the clamp
ZoomIn_Unclamped(z) == [z EXCEPT !.factor = z.factor + Abs(z.step)]

\* ZoomState.zoom_in
ZoomIn(z) == [z EXCEPT !.factor = Min(z.max_factor, z.factor + Abs(z.step))]

\* zoom_out without the clamp
ZoomOut_Unclamped(z) == [z EXCEPT !.factor = z.factor - Abs(z.step)]

\* ZoomState.zoom_out
ZoomOut(z) == [z EXCEPT !.factor = Max(z.min_factor, z.factor - Abs(z.step))]

\* ZoomState.reset
ZoomReset(z) == [z EXCEPT !.factor = ZoomOne, !.pan_x = PanHalf, !.pan_y = PanHalf]

\* ZoomState.pan
Pan(z, dx, dy) ==
    [z EXCEPT !.pan_x = Max(0, Min(PanOne, z.pan_x + dx)),
              !.pan_y = Max(0, Min(PanOne, z.pan_y + dy))]

\* the pan deltas the key and button bindings pass
PanSteps == {<<-1, 0>>, <<1, 0>>, <<0, -1>>, <<0, 1>>}

\* a call on the ZoomState: the calls made so far and the factor each left
ZoomCall(op, z) ==
    /\ Len(zobs.ops) < MaxZoomCalls
    /\ zoom' = z
    /\ zobs' = [zobs EXCEPT !.ops = Append(@, op), !.factors = Append(@, z.factor)]
    /\ UNCHANGED <<recVars, reconnectVars, cameraVars, quotaVars, cropVars, threadVars, tickVars>>

CallZoomIn == ZoomCall("zoom_in", ZoomIn(zoom))
CallZoomOut == ZoomCall("zoom_out", ZoomOut(zoom))
CallZoomReset == ZoomCall("reset", ZoomReset(zoom))
CallPan == \E d \in PanSteps : ZoomCall("pan", Pan(zoom, d[1], d[2]))

\* the pan deltas of the pan tests, beside those of the bindings: (0.1, 0.1),
\* (-0.2, -0.2), (2.0, 2.0), (-4.0, -4.0)
PanDeltas ==
    PanSteps \cup {<<1, 1>>, <<-2, -2>>, <<2 * PanOne, 2 * PanOne>>,
                   <<-4 * PanOne, -4 * PanOne>>}

\* a pan call on the ZoomState: the deltas passed so far and the pan each left
PanCall(dx, dy) ==
    /\ Len(zobs.ops) < MaxZoomCalls
    /\ zoom' = Pan(zoom, dx, dy)
    /\ zobs' = [zobs EXCEPT !.ops = Append(@, "pan"),
                            !.factors = Append(@, zoom'.factor),
                            !.deltas = Append(@, <<dx, dy>>),
                            !.pans = Append(@, <<zoom'.pan_x, zoom'.pan_y>>)]
    /\ UNCHANGED <<recVars, reconnectVars, cameraVars, quotaVars, cropVars, threadVars, tickVars>>

CallPanBy == \E d \in PanDeltas : PanCall(d[1], d[2])

\* ZoomState(min_factor=0.5), as CameraApp builds it
DefaultZoomState ==
    [factor |-> ZoomOne, min_factor |-> DefaultMinFactor, max_factor |-> 4 * ZoomOne,
     step |-> DefaultStep, pan_x |-> PanHalf, pan_y |-> PanHalf]

\* the constructor arguments followed
ZoomConfigs ==
    [factor : DefaultMinFactor .. MaxZoom,
     min_factor : {DefaultMinFactor, ZoomOne + 1},
     max_factor : {ZoomOne - 1, 2 * ZoomOne},
     step : {-DefaultStep, DefaultStep, MaxZoomStep},
     pan_x : {PanHalf}, pan_y : {PanHalf}]

InitZoom ==
    /\ zoom = DefaultZoomState
    /\ zobs = [start |-> DefaultZoomState, ops |-> <<>>, factors |-> <<>>]

\* ------------------------------------------------------------- crop_zoom
(***************************************************************************)
(* src/src/utils/zoom.py, crop_zoom.  The zoom factor is counted in        *)
(* quarters as for ZoomState, a normalized pan argument in quarters of the *)
(* range (1.0 is NormOne), a pixel offset in whole pixels; products and    *)
(* quotients of such values are followed as exact fractions n/d, and       *)
(* round() is Python's: a half goes to the even neighbour.  A frame is its *)
(* type, its number of dimensions and its height and width; a returned     *)
(* frame names, for each of its rows and columns, the row or column of the *)
(* input it shows, or Blank for a zero-filled one: the pixel at (y, x) is  *)
(* the input's pixel at (rows[y], cols[x]), or zero when either is Blank.  *)
(***************************************************************************)

\* largest frame height and width followed
MaxDim == 7
\* largest zoom factor followed (2.25)
MaxCropFactor == 9
\* largest near pixel offset followed
MaxOffset == 1

\* the normalized pan coordinate 1.0, and the default 0.5
NormOne == 4
NormHalf == 2
\* the frame side of the zoom tests, and their far pixel offset
TestDim == 100
FarOffset == 1000

Blank == -1

Clip(v, lo, hi) == Max(lo, Min(hi, v))

\* rounding that drops the fraction
RoundHalfEven_Floor(n, d) == n \div d

\* round(n / d) for d > 0: the nearest integer, a half going to the even one
RoundHalfEven(n, d) ==
    LET q == n \div d
        r == n - q * d
    IN  IF 2 * r < d THEN q
        ELSE IF 2 * r > d THEN q + 1
        ELSE IF q % 2 = 0 THEN q ELSE q + 1

\* a validation that tests the type alone
ValidateFrame_TypeOnly(frame) == IF ~frame.is_array THEN "TypeError" ELSE "ok"

\* _validate_frame: the exception it raises, or "ok"
ValidateFrame(frame) ==
    IF ~frame.is_array THEN "TypeError"
    ELSE IF frame.ndim < 2 THEN "ValueError"
    ELSE "ok"

\* _parse_pan: a tuple or list is a pair of pixel offsets, anything else a pair
\* of normalized coordinates clipped to [0.0, 1.0]
ParsePan(pan) ==
    IF pan.is_tuple
    THEN IF Len(pan.items) # 2
         THEN [error |-> TRUE, normalized_x |-> NormHalf, normalized_y |-> NormHalf,
               offset_x |-> 0, offset_y |-> 0, is_pixel_mode |-> TRUE]
         ELSE [error |-> FALSE, normalized_x |-> NormHalf, normalized_y |-> NormHalf,
               offset_x |-> pan.items[1], offset_y |-> pan.items[2],
               is_pixel_mode |-> TRUE]
    ELSE [error |-> FALSE, normalized_x |-> Clip(pan.pan_x, 0, NormOne),
          normalized_y |-> Clip(pan.pan_y, 0, NormOne),
          offset_x |-> 0, offset_y |-> 0, is_pixel_mode |-> FALSE]

\* np.clip(np.round(np.linspace(0, n - 1, new_n)).astype(int), 0, n - 1)
ResizeIndex(n, new_n) ==
    [k \in 0 .. (new_n - 1) |->
        IF new_n = 1 THEN 0
        ELSE Clip(RoundHalfEven(k * (n - 1), new_n - 1), 0, n - 1)]

\* max(1, int(round(n * zoom_factor)))
ShrinkSize(n, zoom_factor) == Max(1, RoundHalfEven(n * zoom_factor, ZoomOne))

\* the zoom-out offset along one axis, left as round() gives it
ShrinkOffset_Unclamped(n, shrink, p, normalized, offset) ==
    LET max_offset == n - shrink
    IN  IF p.is_pixel_mode THEN RoundHalfEven(max_offset + 2 * offset, 2)
        ELSE RoundHalfEven(normalized * max_offset, NormOne)

\* the zoom-out offset along one axis: x_offset / y_offset after the clamp
ShrinkOffset(n, shrink, p, normalized, offset) ==
    LET max_offset == n - shrink
        raw == IF p.is_pixel_mode THEN RoundHalfEven(max_offset + 2 * offset, 2)
               ELSE RoundHalfEven(normalized * max_offset, NormOne)
    IN  Max(0, Min(max_offset, raw))

\* canvas[offset:offset + shrink] = scaled, along one axis
CanvasIndex(n, shrink, offset) ==
    LET idx == ResizeIndex(n, shrink)
    IN  [i \in 0 .. (n - 1) |->
            IF offset <= i /\ i < offset + shrink
            THEN idx[i - offset] ELSE Blank]

\* max(1, int(round(n / zoom_factor)))
CropSize(n, zoom_factor) == Max(1, RoundHalfEven(n * ZoomOne, zoom_factor))

\* the crop origin along one axis, left where the pan puts it
CropOrigin_Unclamped(n, new_n, p, normalized, offset) ==
    LET center == IF p.is_pixel_mode THEN RoundHalfEven((n - 1) + 2 * offset, 2)
                  ELSE RoundHalfEven(normalized * (n - 1), NormOne)
    IN  center - (new_n \div 2)

\* the crop origin along one axis, held at the left or top edge only
CropOrigin_NoUpperClamp(n, new_n, p, normalized, offset) ==
    LET center == IF p.is_pixel_mode THEN RoundHalfEven((n - 1) + 2 * offset, 2)
                  ELSE RoundHalfEven(normalized * (n - 1), NormOne)
    IN  Max(0, center - (new_n \div 2))

\* the crop origin along one axis: x0 / y0
CropOrigin(n, new_n, p, normalized, offset) ==
    LET center == IF p.is_pixel_mode THEN RoundHalfEven((n - 1) + 2 * offset, 2)
                  ELSE RoundHalfEven(normalized * (n - 1), NormOne)
    IN  Max(0, Min(n - new_n, center - (new_n \div 2)))

\* a slice bound on an axis of length n: a negative one counts from the end,
\* and either kind stops at the ends of the axis
SliceBound(i, n) == IF i < 0 THEN Max(0, n + i) ELSE Min(n, i)

\* frame[origin:origin + new_n] along one axis of length n
SliceIndex(n, origin, new_n) ==
    LET start == SliceBound(origin, n)
        stop == SliceBound(origin + new_n, n)
    IN  [i \in 0 .. (stop - start - 1) |-> start + i]

\* an exception leaving crop_zoom
CropRaised(error, at) == [kind |-> "error", error |-> error, at |-> at]

\* a frame leaving crop_zoom: the array returned, the rectangle computed
\* (origin and size along x and y), the branch that built it
CropReturned(branch, frame, rows, cols, rect, same_object) ==
    [kind |-> "frame", branch |-> branch, ndim |-> frame.ndim, rows |-> rows,
     cols |-> cols, rect |-> rect, same_object |-> same_object]

\* the rows, or the columns, of the whole frame
WholeAxis(n) == [i \in 0 .. (n - 1) |-> i]

\* crop_zoom(frame, zoom_factor, pan_x, pan_y)
CropZoom(frame, zoom_factor, pan) ==
    LET p == ParsePan(pan)
        h == frame.h
        w == frame.w
    IN  IF ValidateFrame(frame) # "ok"
        THEN CropRaised(ValidateFrame(frame), "validate_frame")
        ELSE IF zoom_factor <= 0 THEN CropRaised("ValueError", "zoom_factor")
        ELSE IF p.error THEN CropRaised("ValueError", "parse_pan")
        ELSE IF /\ zoom_factor = ZoomOne
                /\ ~p.is_pixel_mode
                /\ p.normalized_x = NormHalf
                /\ p.normalized_y = NormHalf
        THEN CropReturned("identity", frame, WholeAxis(h), WholeAxis(w),
                          [x |-> 0, y |-> 0, w |-> w, h |-> h], TRUE)
        ELSE IF zoom_factor < ZoomOne
        THEN LET shrink_w == ShrinkSize(w, zoom_factor)
                 shrink_h == ShrinkSize(h, zoom_factor)
                 x_offset == ShrinkOffset(w, shrink_w, p, p.normalized_x, p.offset_x)
                 y_offset == ShrinkOffset(h, shrink_h, p, p.normalized_y, p.offset_y)
             IN  CropReturned("zoom_out", frame,
                              CanvasIndex(h, shrink_h, y_offset),
                              CanvasIndex(w, shrink_w, x_offset),
                              [x |-> x_offset, y |-> y_offset,
                               w |-> shrink_w, h |-> shrink_h], FALSE)
        ELSE LET new_w == CropSize(w, zoom_factor)
                 new_h == CropSize(h, zoom_factor)
                 x0 == CropOrigin(w, new_w, p, p.normalized_x, p.offset_x)
                 y0 == CropOrigin(h, new_h, p, p.normalized_y, p.offset_y)
             IN  CropReturned("zoom_in", frame, SliceIndex(h, y0, new_h),
                              SliceIndex(w, x0, new_w),
                              [x |-> x0, y |-> y0, w |-> new_w, h |-> new_h], FALSE)

\* the frames passed: arrays of two or three dimensions with every height and
\* width followed, an array of fewer dimensions, and an object that is no array
FrameDims == (1 .. MaxDim) \cup {TestDim}
Frames ==
    [is_array : {TRUE}, ndim : {3}, h : FrameDims, w : FrameDims]
    \cup [is_array : {TRUE}, ndim : {2}, h : {MaxDim}, w : {MaxDim}]
    \cup [is_array : {TRUE}, ndim : {0, 1}, h : {0}, w : {0}]
    \cup [is_array : {FALSE}, ndim : {0}, h : {0}, w : {0}]

\* the zoom factors passed: none, a negative one, and every quarter up to the bound
CropFactors == (-1) .. MaxCropFactor

\* the pan arguments passed: normalized pairs inside and outside [0.0, 1.0],
\* pairs of pixel offsets near and far, tuples of another length
NormalizedPans == {-NormOne, 0, 1, NormHalf, NormOne, 2 * NormOne}
PixelOffsets == ((-MaxOffset) .. MaxOffset) \cup {-FarOffset, FarOffset}
PanInputs ==
    [is_tuple : {FALSE}, pan_x : NormalizedPans, pan_y : NormalizedPans, items : {<<>>}]
    \cup [is_tuple : {TRUE}, pan_x : {NormHalf}, pan_y : {NormHalf},
          items : (PixelOffsets \X PixelOffsets) \cup {<<0>>, <<0, 0, 0>>}]

\* crop_zoom is called on the arguments chosen
ApplyCropZoom ==
    /\ crop.out = None
    /\ crop' = [crop EXCEPT !.out = Some(CropZoom(crop.frame, crop.zoom_factor, crop.pan))]
    /\ UNCHANGED <<recVars, reconnectVars, cameraVars, quotaVars, zoomVars, threadVars, tickVars>>

\* crop_zoom's defaults: pan_x = 0.5, pan_y = 0.5
DefaultPan == [is_tuple |-> FALSE, pan_x |-> NormHalf, pan_y |-> NormHalf, items |-> <<>>]

InitCrop ==
    crop = [frame |-> [is_array |-> TRUE, ndim |-> 3, h |-> 1, w |-> 1],
            zoom_factor |-> ZoomOne, pan |-> DefaultPan, out |-> None]

\* ------------------------------------------------------------- worker threads
(***************************************************************************)
(* The two background jobs: CameraApp.refresh_cameras_async                *)
(* (src/src/ui/app.py) and CameraScanner.start_scan                        *)
(* (src/src/services/ip_camera.py) as IPCameraDialog._start_scan           *)
(* (src/src/ui/ip_camera_dialog.py) uses it.  Each action is a step of one *)
(* thread; a thread started is an entry of refresh.workers or of           *)
(* scanner.workers that holds its position; muts records which thread has *)
(* assigned which object.                                                  *)
(***************************************************************************)

\* refresh_cameras_async calls and _start_scan calls followed
MaxRefreshes == 2
MaxScans == 2
\* addresses in get_local_network_range()
MaxIps == 2

\* thread t assigns the objects objs
Touch(t, objs) == muts \cup {<<o, t>> : o \in objs}

\* what list_cameras() can return: the USB cameras that answer, in index order
CameraLists ==
    {<<>>, <<[kind |-> "usb", index |-> 0]>>, <<[kind |-> "usb", index |-> 1]>>,
     <<[kind |-> "usb", index |-> 0], [kind |-> "usb", index |-> 1]>>}

\* the refresh workers that have not reached the end of _refresh_in_thread
RunningRefreshWorkers(r) == {w \in DOMAIN r.workers : r.workers[w].pc # "done"}

\* self._refresh_lock.acquire(blocking=False) that always succeeds
TryAcquire_Always(lock) == TRUE

\* self._refresh_lock.acquire(blocking=False): True iff the lock was free
TryAcquire(lock) == ~lock

\* a release that is skipped when list_cameras() raised
LockAfterWorker_SuccessOnly(raised) == raised

\* finally: self._refresh_lock.release(), whether or not list_cameras()
\* raised: the lock is free afterwards
LockAfterWorker(raised) == FALSE

\* refresh_cameras_async, on the control thread: take the lock without
\* waiting, or report that a refresh is running; start the worker thread
RefreshCamerasAsync ==
    /\ refresh.calls < MaxRefreshes
    /\ IF ~TryAcquire(refresh.lock)
       THEN /\ refresh' = [refresh EXCEPT !.calls = @ + 1]
            /\ ui' = [ui EXCEPT !.status = "refresh_running"]
       ELSE /\ refresh' = [lock |-> TRUE,
                           workers |-> Append(refresh.workers,
                                              [pc |-> "listing", raised |-> FALSE]),
                           calls |-> refresh.calls + 1]
            /\ ui' = [ui EXCEPT !.status = "refreshing"]
    /\ muts' = Touch("control", {"status"})
    /\ UNCHANGED <<after_queue, scanner>>
    /\ UNCHANGED <<recVars, reconnectVars, cameraVars, quotaVars, zoomVars, cropVars, tickVars>>

\* _refresh_in_thread, on worker w: list_cameras() returns or raises, and
\* the result is scheduled with root.after(0, ...)
RefreshWorkerList(w) ==
    /\ refresh.workers[w].pc = "listing"
    /\ \E raised \in BOOLEAN, cams \in CameraLists :
          /\ raised => cams = <<>>
          /\ after_queue' =
                Append(after_queue,
                       IF raised THEN [fn |-> "set_status", cams |-> <<>>]
                       ELSE [fn |-> "update_camera_list", cams |-> cams])
          /\ refresh' = [refresh EXCEPT !.workers[w] =
                                           [pc |-> "release", raised |-> raised]]
    /\ UNCHANGED <<ui, scanner, muts>>
    /\ UNCHANGED <<recVars, reconnectVars, cameraVars, quotaVars, zoomVars, cropVars, tickVars>>

\* _refresh_in_thread, finally: self._refresh_lock.release(); worker w ends
RefreshWorkerRelease(w) ==
    /\ refresh.workers[w].pc = "release"
    /\ refresh' = [refresh EXCEPT !.lock = LockAfterWorker(refresh.workers[w].raised),
                                  !.workers[w].pc = "done"]
    /\ UNCHANGED <<after_queue, ui, scanner, muts>>
    /\ UNCHANGED <<recVars, reconnectVars, cameraVars, quotaVars, zoomVars, cropVars, tickVars>>

\* CameraApp.on_select_camera with the combo box of the slot at selection:
\* no selection, or one beyond the camera list, stops the slot; otherwise the
\* source listed there is started
OnSelectCam(app, slot, selection, outcome) ==
    IF selection = -1 \/ selection >= Len(ui.camera_list)
    THEN StopCam(app, slot)
    ELSE StartCam(app, slot, ui.camera_list[selection + 1], outcome)

\* the user picks an entry of a slot's combo box
OnSelectCamera(slot) ==
    /\ \E selection \in 0 .. (Len(ui.camera_list) - 1), outcome \in CaptureOutcomes :
          /\ ui' = [ui EXCEPT !.combo[slot] = selection]
          /\ StoreCamera(OnSelectCam(CameraFields, slot, selection, outcome))
    /\ aobs' = [op |-> "on_select_camera", slot |-> slot, success |-> caps'[slot] # None]
    /\ UNCHANGED <<refresh, after_queue, scanner, muts, reconnect_states>>
    /\ UNCHANGED <<reconnectVars, recVars, quotaVars, zoomVars, cropVars, tickVars>>

\* the user picks the one-camera or the two-camera layout; update_layout
\* stops slot 1 in the first, and in the second selects and starts the second
\* camera of the list when slot 1 has no selection
UpdateLayout ==
    /\ \E n \in 1 .. 2, outcome \in CaptureOutcomes :
          LET pick == n = 2 /\ ui.combo[1] = -1 /\ Len(ui.camera_list) > 1
          IN  /\ num_cams' = n
              /\ ui' = [ui EXCEPT !.combo[1] = IF pick THEN 1 ELSE @]
              /\ ~pick => outcome = "open"
              /\ StoreCamera(IF n = 1 THEN StopCam(CameraFields, 1)
                             ELSE IF pick THEN OnSelectCam(CameraFields, 1, 1, outcome)
                             ELSE CameraFields)
    /\ aobs' = [op |-> "update_layout", slot |-> 1, success |-> caps'[1] # None]
    /\ UNCHANGED <<clock_res, cfg, now, closed, prebuffer, writer, recording,
                   last_motion_ts, start_ts, event_path, persons_max, writers,
                   call, ret, hist>>
    /\ UNCHANGED <<refresh, after_queue, scanner, muts, reconnect_states>>
    /\ UNCHANGED <<reconnectVars, quotaVars, zoomVars, cropVars, tickVars>>

\* _update_camera_list(cams), on the thread that runs it: the USB cameras and
\* the configured IP cameras become the camera list; a combo box without a
\* selection selects its default entry, and on_select_camera starts it
UpdateCameraList(t, cams) ==
    LET combined == cams \o ui.ip_cameras
        pick0 == combined # <<>> /\ ui.combo[0] = -1
        pick1 == combined # <<>> /\ num_cams >= 2 /\ ui.combo[1] = -1 /\ Len(combined) > 1
    IN  /\ ui' = [ui EXCEPT !.camera_list = combined,
                            !.combo = [s \in Slots |->
                                         IF s = 0 /\ pick0 THEN 0
                                         ELSE IF s = 1 /\ pick1 THEN 1
                                         ELSE ui.combo[s]],
                            !.status = IF combined # <<>> THEN "cameras" ELSE "no_camera"]
        /\ \E o0 \in CaptureOutcomes, o1 \in CaptureOutcomes :
              /\ ~pick0 => o0 = "open"
              /\ ~pick1 => o1 = "open"
              /\ LET app0 == IF pick0
                             THEN StartCam(CameraFields, 0, combined[1], o0)
                             ELSE CameraFields
                     app1 == IF pick1 THEN StartCam(app0, 1, combined[2], o1) ELSE app0
                 IN  StoreCamera(app1)
        /\ muts' = Touch(t, {"camera_list", "status"}
                            \cup (IF pick0 \/ pick1 THEN {"combo", "caps"} ELSE {}))

\* the Tk main loop, on the control thread, runs the oldest callback scheduled
RunAfterCallback ==
    /\ after_queue # <<>>
    /\ after_queue' = Tail(after_queue)
    /\ IF Head(after_queue).fn = "set_status"
       THEN /\ ui' = [ui EXCEPT !.status = "refresh_failed"]
            /\ muts' = Touch("control", {"status"})
            /\ UNCHANGED <<caps, indices, camera_sources, handles>>
       ELSE UpdateCameraList("control", Head(after_queue).cams)
    /\ aobs' = IF Head(after_queue).fn = "set_status" THEN aobs
               ELSE [op |-> "update_camera_list", slot |-> 0, success |-> caps'[0] # None]
    /\ UNCHANGED <<refresh, scanner, reconnect_states>>
    /\ UNCHANGED <<recVars, reconnectVars, quotaVars, zoomVars, cropVars, tickVars>>

\* the scan workers that have not left scan_worker
RunningScanWorkers(sc) == {w \in DOMAIN sc.workers : sc.workers[w].pc # "done"}

\* IPCameraDialog._start_scan, on the control thread: the result list is
\* cleared, then CameraScanner.start_scan empties found_cameras, sets
\* is_scanning and starts a scan worker (or returns if is_scanning is set),
\* then _check_scan_status begins to poll
StartScan ==
    /\ scanner.scans < MaxScans
    /\ ui.scan_button
    /\ ui' = [ui EXCEPT !.scan_button = FALSE, !.stop_scan_button = TRUE,
                        !.add_auto_button = FALSE, !.results_tree = <<>>,
                        !.polling = TRUE]
    /\ IF scanner.is_scanning
       THEN /\ scanner' = [scanner EXCEPT !.scans = @ + 1]
            /\ muts' = Touch("control", {"results_tree", "scan_button", "add_auto_button"})
       ELSE /\ scanner' = [is_scanning |-> TRUE, found_cameras |-> <<>>,
                           workers |-> Append(scanner.workers, [pc |-> "check", i |-> 0]),
                           scans |-> scanner.scans + 1]
            /\ muts' = Touch("control", {"results_tree", "scan_button", "add_auto_button",
                                         "found_cameras", "is_scanning"})
    /\ UNCHANGED <<refresh, after_queue>>
    /\ UNCHANGED <<recVars, reconnectVars, cameraVars, quotaVars, zoomVars, cropVars, tickVars>>

\* progress_callback(current, total), on the thread that calls it: the progress
\* text is set, every found camera whose address is not yet listed is inserted
\* into the result list, and the add button is enabled once a camera is found
ProgressCallback(t, u, found) ==
    LET Listed(ip) == \E k \in DOMAIN u.results_tree : u.results_tree[k] = ip
        Fresh(k) == /\ ~Listed(found[k].ip)
                    /\ \A j \in 1 .. (k - 1) : found[j].ip # found[k].ip
        IsFresh(c) == \E k \in DOMAIN found : found[k] = c /\ Fresh(k)
        fresh == SelectSeq(found, IsFresh)
    IN  [ui |-> [u EXCEPT !.progress = "scanning",
                          !.results_tree = @ \o [k \in DOMAIN fresh |-> fresh[k].ip],
                          !.add_auto_button = IF found # <<>> THEN TRUE ELSE @],
         touched |-> {"progress"}
                    \cup (IF fresh # <<>> THEN {"results_tree"} ELSE {})
                    \cup (IF found # <<>> THEN {"add_auto_button"} ELSE {})]

\* scan_worker w at the head of its loop: with an address left and
\* is_scanning set it goes on to probe the address
ScanWorkerCheck(w) ==
    /\ scanner.workers[w].pc = "check"
    /\ scanner.workers[w].i < MaxIps
    /\ scanner.is_scanning
    /\ scanner' = [scanner EXCEPT !.workers[w].pc = "probe"]
    /\ UNCHANGED <<refresh, after_queue, ui, muts>>
    /\ UNCHANGED <<recVars, reconnectVars, cameraVars, quotaVars, zoomVars, cropVars, tickVars>>

\* scan_worker w, the rest of one turn of its loop: scan_ip_for_camera has
\* probed the address, a camera found there is appended to found_cameras, and
\* the progress callback is called
ScanWorkerProbe(w) ==
    /\ scanner.workers[w].pc = "probe"
    /\ \E hit \in BOOLEAN :
          LET ip == scanner.workers[w].i + 1
              found == IF hit THEN Append(scanner.found_cameras, [ip |-> ip, by |-> w])
                       ELSE scanner.found_cameras
              cb == ProgressCallback("scan_worker", ui, found)
          IN  /\ scanner' = [scanner EXCEPT !.found_cameras = found,
                                            !.workers[w] = [pc |-> "check", i |-> ip]]
              /\ ui' = cb.ui
              /\ muts' = Touch("scan_worker",
                               cb.touched \cup (IF hit THEN {"found_cameras"} ELSE {}))
    /\ UNCHANGED <<refresh, after_queue>>
    /\ UNCHANGED <<recVars, reconnectVars, cameraVars, quotaVars, zoomVars, cropVars, tickVars>>

\* scan_worker w leaves its loop, at the last address or because is_scanning
\* was cleared, and clears is_scanning
ScanWorkerFinish(w) ==
    /\ scanner.workers[w].pc = "check"
    /\ scanner.workers[w].i = MaxIps \/ ~scanner.is_scanning
    /\ scanner' = [scanner EXCEPT !.is_scanning = FALSE, !.workers[w].pc = "done"]
    /\ muts' = Touch("scan_worker", {"is_scanning"})
    /\ UNCHANGED <<refresh, after_queue, ui>>
    /\ UNCHANGED <<recVars, reconnectVars, cameraVars, quotaVars, zoomVars, cropVars, tickVars>>

\* IPCameraDialog._stop_scan, on the control thread
StopScan ==
    /\ ui.stop_scan_button
    /\ scanner' = [scanner EXCEPT !.is_scanning = FALSE]
    /\ ui' = [ui EXCEPT !.scan_button = TRUE, !.stop_scan_button = FALSE,
                        !.progress = "stopped"]
    /\ muts' = Touch("control", {"is_scanning", "scan_button", "progress"})
    /\ UNCHANGED <<refresh, after_queue>>
    /\ UNCHANGED <<recVars, reconnectVars, cameraVars, quotaVars, zoomVars, cropVars, tickVars>>

\* IPCameraDialog._check_scan_status, on the control thread every 500 ms
\* until the scan is over
CheckScanStatus ==
    /\ ui.polling
    /\ IF scanner.is_scanning
       THEN UNCHANGED <<ui, muts>>
       ELSE /\ ui' = [ui EXCEPT !.progress = "done", !.scan_button = TRUE,
                                !.stop_scan_button = FALSE, !.polling = FALSE]
            /\ muts' = Touch("control", {"progress", "scan_button"})
    /\ UNCHANGED <<refresh, after_queue, scanner>>
    /\ UNCHANGED <<recVars, reconnectVars, cameraVars, quotaVars, zoomVars, cropVars, tickVars>>

\* CameraApp.__init__ and IPCameraDialog.__init__: no refresh and no scan is
\* running, nothing is scheduled, the lists are empty
InitThreads ==
    /\ refresh = [lock |-> FALSE, workers |-> <<>>, calls |-> 0]
    /\ after_queue = <<>>
    /\ ui = [camera_list |-> <<>>, ip_cameras |-> <<>>, combo |-> [s \in Slots |-> -1],
             status |-> "ready", results_tree |-> <<>>, progress |-> "idle",
             scan_button |-> TRUE, stop_scan_button |-> FALSE,
             add_auto_button |-> FALSE, polling |-> FALSE]
    /\ scanner = [is_scanning |-> FALSE, found_cameras |-> <<>>, workers |-> <<>>,
                  scans |-> 0]
    /\ muts = {}

\* ------------------------------------------------------------- tick loop
(***************************************************************************)
(* CameraApp.update_frames (src/src/ui/app.py), the tick of the            *)
(* application.  tick.pc is the slot whose turn of the loop                *)
(* "for slot in range(2)" comes next, NumSlots once the loop is over;      *)
(* tick.scheduled says that root.after holds a call of update_frames.  A   *)
(* turn of the loop, with the recorder update and the event handlers it    *)
(* calls, is one action.  A recording file is named by the number of its   *)
(* path; its size is the number of frames written to it (a frame of the    *)
(* MJPG file taken as one size unit) and its modification time the clock   *)
(* reading of the last write.  file.unlink() of a file whose writer is     *)
(* open succeeds or fails, as the platform has it.                         *)
(***************************************************************************)

\* ticks of update_frames followed
MaxFrameTicks == 2
\* largest clock advance between two recorder updates of the tick loop
MaxTickStep == 1

\* the largest clock reading of the tick loop
TickEnd == 1 + MaxFrameTicks * NumSlots * MaxTickStep

\* the place of a recording path in the order of the file names:
\* recording_cam{slot}_{stamp}.avi, by slot and then by stamp
RecordingName(path) == path[1] * (TickEnd + 1) + path[2]

\* the directory after an update that left the writers ws at clock reading t:
\* a writer opened by the update has created (or truncated) its file, and a
\* write to a file that is still in the directory has grown and touched it
TouchFile(fs, ws, t) ==
    LET written == {i \in DOMAIN ws :
                      /\ ws[i].opened
                      /\ i > Len(writers) \/ ws[i].frames # writers[i].frames}
        created == {i \in written : i > Len(writers)}
        names == {RecordingName(ws[i].path) : i \in written}
        kept == {f \in fs : f.name \notin names}
        FileOf(i) == [name |-> RecordingName(ws[i].path), mtime |-> t,
                      size |-> Len(ws[i].frames)]
    IN  kept \cup {FileOf(i) : i \in {j \in written :
                                        \/ j \in created
                                        \/ \E f \in fs : f.name = RecordingName(ws[j].path)}}

\* the sets of names whose unlink can fail in a run that has to delete
UnlinkFailures(fs, limit) ==
    IF SumSizes(fs) > LimitB(limit) THEN SUBSET {f.name : f \in fs} ELSE {{}}

\* _handle_new_event: the event is listed and the storage limit enforced
NewEventCalls == <<"handle_new_event", "refresh_events_view", "enforce_storage_limit">>

\* _handle_finished_event: the event is completed and the usage label updated
FinishedEventCalls == <<"handle_finished_event", "refresh_events_view",
                        "update_usage_label">>

\* if new_event: self._handle_new_event(new_event)
\* if finished_event: self._handle_finished_event(finished_event)
HandlerCalls(r) ==
    (IF r.new_event # None THEN NewEventCalls ELSE <<>>)
        \o (IF r.finished_event # None THEN FinishedEventCalls ELSE <<>>)

\* a loop whose exception leaves update_frames
AfterSlot_Escapes(slot, raised) == IF raised THEN 0 ELSE slot + 1

\* the turn of the loop for slot is over, by continue, by reaching its end or
\* through the except clause, which logs: the next slot's turn follows
AfterSlot(slot, raised) == slot + 1

\* tick after the turn of slot that came to outcome and made the calls
TickAfter(slot, outcome, calls) ==
    [pc |-> AfterSlot(slot, outcome \in {"raised", "update_raised"}),
     n |-> tick.n,
     scheduled |-> IF slot = 0 THEN FALSE ELSE tick.scheduled,
     outcome |-> [s \in Slots |-> IF s = slot THEN outcome
                                  ELSE IF slot = 0 THEN "none" ELSE tick.outcome[s]],
     handlers |-> calls]

\* one turn of the loop of update_frames, for slot; the turn of slot 0 begins
\* the tick that root.after had scheduled
TickSlot(slot) ==
    /\ ~closed
    /\ tick.pc = slot
    /\ slot = 0 => tick.scheduled /\ tick.n < MaxFrameTicks
    /\ \/ \* if slot == 1 and self.num_cams.get() == 1: continue
          /\ slot = 1 /\ num_cams = 1
          /\ tick' = TickAfter(slot, "hidden", <<>>)
          /\ UNCHANGED <<now, prebuffer, writer, recording, last_motion_ts, start_ts,
                         event_path, persons_max, writers, call, ret, hist, quotaVars>>
       \/ \* if cap is None: continue
          /\ ~(slot = 1 /\ num_cams = 1)
          /\ caps[slot] = None
          /\ tick' = TickAfter(slot, "no_cap", <<>>)
          /\ UNCHANGED <<now, prebuffer, writer, recording, last_motion_ts, start_ts,
                         event_path, persons_max, writers, call, ret, hist, quotaVars>>
       \/ \* if not ok: continue; or read, detection or crop_zoom raises
          /\ ~(slot = 1 /\ num_cams = 1)
          /\ caps[slot] # None
          /\ \E outcome \in {"read_failed", "raised"} :
                tick' = TickAfter(slot, outcome, <<>>)
          /\ UNCHANGED <<now, prebuffer, writer, recording, last_motion_ts, start_ts,
                         event_path, persons_max, writers, call, ret, hist, quotaVars>>
       \/ \* recorders[slot].update raises at a write
          /\ ~(slot = 1 /\ num_cams = 1)
          /\ caps[slot] # None
          /\ \E dt \in 0 .. MaxTickStep, motion_trigger \in BOOLEAN :
                /\ (motion_trigger /\ ~recording[slot])
                      \/ (recording[slot] /\ writer[slot] # 0)
                /\ LET r == UpdWriteRaises(slot, dt, motion_trigger, 0, 0)
                   IN  /\ Store(slot, r)
                       /\ files' = TouchFile(files, r.writers, r.now)
          /\ tick' = TickAfter(slot, "update_raised", <<>>)
          /\ UNCHANGED <<storage_limit, qobs>>
       \/ \* recorders[slot].update returns, and the events are handled
          /\ ~(slot = 1 /\ num_cams = 1)
          /\ caps[slot] # None
          /\ \E dt \in 0 .. MaxTickStep, motion_trigger \in BOOLEAN,
                outcome \in OpenOutcomes :
                /\ (motion_trigger /\ ~recording[slot]) \/ outcome = "ok"
                /\ LET r == Upd(slot, dt, motion_trigger, 0, outcome)
                       fs == TouchFile(files, r.writers, r.now)
                       calls == HandlerCalls(r.ret)
                       enforced == \E i \in DOMAIN calls :
                                      calls[i] = "enforce_storage_limit"
                   IN  /\ Store(slot, r)
                       /\ tick' = TickAfter(slot, "updated", calls)
                       /\ IF enforced
                          THEN \E failing \in UnlinkFailures(fs, storage_limit) :
                                  LET pass == EnforcePass(fs, {}, failing, storage_limit)
                                  IN  /\ files' = pass.files
                                      /\ qobs' = [pass.obs EXCEPT !.runs = qobs.runs + 1]
                          ELSE /\ files' = fs
                               /\ qobs' = qobs
          /\ UNCHANGED storage_limit
    /\ UNCHANGED <<clock_res, cfg, num_cams, closed>>
    /\ UNCHANGED <<reconnectVars, cameraVars, zoomVars, cropVars, threadVars>>

\* self.root.after(UPDATE_INTERVAL_MS, self.update_frames), after the loop
TickReschedule ==
    /\ tick.pc = NumSlots
    /\ tick' = [tick EXCEPT !.pc = 0, !.n = @ + 1, !.scheduled = TRUE]
    /\ UNCHANGED <<recVars, reconnectVars, cameraVars, quotaVars, zoomVars, cropVars,
                   threadVars>>

\* CameraApp.__init__: the first update_frames is scheduled
InitTick ==
    tick = [pc |-> 0, n |-> 0, scheduled |-> TRUE,
            outcome |-> [s \in Slots |-> "none"], handlers |-> <<>>]

\* ------------------------------------------------------------- initial states

Configs == [pre_seconds : 0 .. MaxPre, post_seconds : 0 .. MaxPost,
            target_fps : 1 .. MaxFps]

\* RollingRecorder.__init__ for both slots, CameraApp.__init__
InitRecorders ==
    /\ num_cams = 1
    /\ closed = FALSE
    /\ prebuffer = [s \in Slots |-> <<>>]
    /\ writer = [s \in Slots |-> 0]
    /\ recording = [s \in Slots |-> FALSE]
    /\ last_motion_ts = [s \in Slots |-> NoTime]
    /\ start_ts = [s \in Slots |-> NoTime]
    /\ event_path = [s \in Slots |-> None]
    /\ persons_max = [s \in Slots |-> 0]
    /\ writers = <<>>
    /\ call = [s \in Slots |-> [motion_trigger |-> FALSE, person_count |-> 0,
                                frame |-> 0, time |-> 0, open |-> "skip",
                                was_recording |-> FALSE]]
    /\ ret = [s \in Slots |-> [new_event |-> None, finished_event |-> None]]
    /\ hist = [s \in Slots |-> [ticks |-> 0, opens |-> 0, T |-> NoTime,
                                seen_persons |-> 0, new_events |-> <<>>,
                                finished_events |-> <<>>]]

Init ==
    /\ clock_res = UnitsPerSec
    /\ cfg \in Configs
    /\ now = 1
    /\ InitRecorders
    /\ InitReconnect /\ InitCamera /\ InitQuota /\ InitZoom /\ InitCrop /\ InitThreads /\ InitTick

Next ==
    \/ \E s \in Slots : Update(s)
    \/ OnClose

Spec == Init /\ [][Next]_vars

\* Continuous tick delivery without shutdown: update_frames reschedules itself
\* every UPDATE_INTERVAL_MS, so calls keep coming and the clock keeps advancing.
InitLive ==
    /\ clock_res = UnitsPerSec
    /\ cfg \in Configs
    /\ now = LiveBase
    /\ InitRecorders
    /\ InitReconnect /\ InitCamera /\ InitQuota /\ InitZoom /\ InitCrop /\ InitThreads /\ InitTick

NextLive == \E s \in Slots : LiveUpdate(s)

SpecLive ==
    /\ InitLive
    /\ [][NextLive]_vars
    /\ WF_vars(LiveTick(0, 1 .. MaxStep))

\* The recorder the application builds (default RecorderConfig) at a steady
\* 30 calls per second, one clock unit per call: no trigger until the pre-buffer
\* has been filled to its capacity, then ten trigger calls, then none until the
\* post-roll has run out.
InitScenario ==
    /\ clock_res = DefaultTargetFps
    /\ cfg = [pre_seconds |-> DefaultPreSeconds * DefaultTargetFps,
              post_seconds |-> DefaultPostSeconds * DefaultTargetFps,
              target_fps |-> DefaultTargetFps]
    /\ now = 1
    /\ InitRecorders
    /\ InitReconnect /\ InitCamera /\ InitQuota /\ InitZoom /\ InitCrop /\ InitThreads /\ InitTick

ScenarioTick ==
    LET n == hist[0].ticks + 1
        cap == Capacity(cfg, clock_res)
    IN  /\ SlotLive(0)
        /\ n <= cap + 10 + cfg.post_seconds
        /\ Store(0, Upd(0, 1, n > cap /\ n <= cap + 10, 0, "ok"))
        /\ UNCHANGED <<clock_res, cfg, num_cams, closed>>
        /\ UNCHANGED <<reconnectVars, cameraVars, quotaVars, zoomVars, cropVars, threadVars, tickVars>>

NextScenario == ScenarioTick

SpecScenario == InitScenario /\ [][NextScenario]_vars

\* A recorder whose buffer holds more frames than fit into the pre-roll window
\* when the calls are far apart: pre_seconds of one second at three frames per
\* second.
InitPreRoll ==
    /\ clock_res = UnitsPerSec
    /\ cfg \in [pre_seconds : {MaxPre}, post_seconds : 0 .. MaxPost,
                target_fps : {MaxFps + 1}]
    /\ now = 1
    /\ InitRecorders
    /\ InitReconnect /\ InitCamera /\ InitQuota /\ InitZoom /\ InitCrop /\ InitThreads /\ InitTick

SpecPreRoll == InitPreRoll /\ [][Next]_vars

\* The recorders with writers whose write may raise.
NextWriteFail ==
    \/ \E s \in Slots : Update(s)
    \/ \E s \in Slots : UpdateWriteRaises(s)
    \/ OnClose

SpecWriteFail == InitPreRoll /\ [][NextWriteFail]_vars

\* ------------------------------------------------------------- other components
\* The recorders as CameraApp.__init__ leaves them, for the specifications
\* that follow another component.
InitRecorderIdle ==
    /\ clock_res = UnitsPerSec
    /\ cfg = [pre_seconds |-> DefaultPreSeconds * UnitsPerSec,
              post_seconds |-> DefaultPostSeconds * UnitsPerSec,
              target_fps |-> DefaultTargetFps]
    /\ now = 1
    /\ InitRecorders

\* A ReconnectState object under any order of its calls.
InitReconnectCalls ==
    /\ rstate \in ReconnectConfigs
    /\ rclock = StartClock
    /\ robs = NoCall
    /\ InitRecorderIdle /\ InitCamera /\ InitQuota /\ InitZoom /\ InitCrop /\ InitThreads /\ InitTick

NextReconnect ==
    \/ ReconnectAdvance
    \/ CallShouldAttempt
    \/ CallRecordAttempt
    \/ CallReset

SpecReconnect == InitReconnectCalls /\ [][NextReconnect]_vars

\* A ReconnectState object whose caller tests should_attempt() before every
\* record_attempt(), with resets and the auto-reconnect switch in any order.
NextGuarded ==
    \/ ReconnectAdvance
    \/ GuardedRecordAttempt
    \/ CallReset
    \/ SetEnabled

SpecGuarded == InitReconnectCalls /\ [][NextGuarded]_vars

\* Scenario D
InitScenarioD ==
    /\ rstate \in {c \in ReconnectConfigs :
                     /\ c.enabled
                     /\ c.max_attempts = ScenarioMaxAttempts
                     /\ c.base_delay = DefaultBaseDelay * UnitsPerSec}
    /\ rclock = StartClock
    /\ robs = NoCall
    /\ InitRecorderIdle /\ InitCamera /\ InitQuota /\ InitZoom /\ InitCrop /\ InitThreads /\ InitTick

NextScenarioD ==
    \/ ScenarioDWait
    \/ ScenarioDRecord
    \/ CallShouldAttempt

SpecScenarioD == InitScenarioD /\ [][NextScenarioD]_vars

\* The camera slots of the application under the user's and the reconnect
\* logic's operations.
InitCameraSlots ==
    /\ InitCamera
    /\ InitRecorderIdle /\ InitReconnect /\ InitQuota /\ InitZoom /\ InitCrop /\ InitThreads /\ InitTick

NextCamera ==
    \/ \E s \in Slots : StartCamera(s)
    \/ \E s \in Slots : StopCamera(s)
    \/ \E s \in Slots : AttemptReconnect(s)
    \/ OnAutoreconnectChange
    \/ CameraAdvance

SpecCamera == InitCameraSlots /\ [][NextCamera]_vars

\* The recordings directory under the enforcer, the recorders and the user.
InitDirectory ==
    /\ files \in Directories
    /\ storage_limit \in 0 .. MaxLimit
    /\ qobs = NoRun
    /\ InitRecorderIdle /\ InitReconnect /\ InitCamera /\ InitZoom /\ InitCrop /\ InitThreads /\ InitTick

NextQuota ==
    \/ EnforceStorageLimit
    \/ NewRecording
    \/ SetStorageLimit

SpecQuota == InitDirectory /\ [][NextQuota]_vars

\* A ZoomState object under any order of its calls.
InitZoomCalls ==
    /\ zoom \in ZoomConfigs
    /\ zobs = [start |-> zoom, ops |-> <<>>, factors |-> <<>>]
    /\ InitRecorderIdle /\ InitReconnect /\ InitCamera /\ InitQuota /\ InitCrop /\ InitThreads /\ InitTick

NextZoom ==
    \/ CallZoomIn
    \/ CallZoomOut
    \/ CallZoomReset
    \/ CallPan

SpecZoom == InitZoomCalls /\ [][NextZoom]_vars

\* A default ZoomState under any order of pan calls.
InitPanCalls ==
    /\ zoom = DefaultZoomState
    /\ zobs = [start |-> zoom, ops |-> <<>>, factors |-> <<>>, deltas |-> <<>>,
               pans |-> <<>>]
    /\ InitRecorderIdle /\ InitReconnect /\ InitCamera /\ InitQuota /\ InitCrop
    /\ InitThreads /\ InitTick

NextPan == CallPanBy

SpecPan == InitPanCalls /\ [][NextPan]_vars

\* crop_zoom on every combination of the arguments followed.
InitCropCalls ==
    /\ crop \in [frame : Frames, zoom_factor : CropFactors, pan : PanInputs,
                 out : {None}]
    /\ InitRecorderIdle /\ InitReconnect /\ InitCamera /\ InitQuota /\ InitZoom
    /\ InitThreads /\ InitTick

NextCrop == ApplyCropZoom

SpecCrop == InitCropCalls /\ [][NextCrop]_vars


\* The camera refresh and the network scan, any interleaving of their threads.
InitThreadsIdle ==
    /\ InitThreads /\ InitTick
    /\ InitRecorderIdle /\ InitReconnect /\ InitCamera /\ InitQuota /\ InitZoom
    /\ InitCrop

NextThreads ==
    \/ RefreshCamerasAsync
    \/ \E w \in DOMAIN refresh.workers : RefreshWorkerList(w)
    \/ \E w \in DOMAIN refresh.workers : RefreshWorkerRelease(w)
    \/ RunAfterCallback
    \/ StartScan
    \/ \E w \in DOMAIN scanner.workers : ScanWorkerCheck(w)
    \/ \E w \in DOMAIN scanner.workers : ScanWorkerProbe(w)
    \/ \E w \in DOMAIN scanner.workers : ScanWorkerFinish(w)
    \/ StopScan
    \/ CheckScanStatus

SpecThreads == InitThreadsIdle /\ [][NextThreads]_vars

\* The capture handles of the two slots under the camera refresh and the
\* user's operations, until the window is closed.
NextLayout ==
    \/ ~closed /\ RefreshCamerasAsync
    \/ ~closed /\ \E w \in DOMAIN refresh.workers : RefreshWorkerList(w)
    \/ ~closed /\ \E w \in DOMAIN refresh.workers : RefreshWorkerRelease(w)
    \/ ~closed /\ RunAfterCallback
    \/ ~closed /\ \E s \in Slots : StartCamera(s)
    \/ ~closed /\ \E s \in Slots : StopCamera(s)
    \/ ~closed /\ \E s \in Slots : OnSelectCamera(s)
    \/ ~closed /\ UpdateLayout
    \/ OnClose

SpecLayout == InitThreadsIdle /\ [][NextLayout]_vars

\* The tick loop over both slots, with the cameras of both slots started;
\* between two ticks the user stops a camera or changes the layout.
InitFrameTicks ==
    /\ clock_res = UnitsPerSec
    /\ cfg = [pre_seconds |-> UnitsPerSec, post_seconds |-> 1, target_fps |-> 1]
    /\ now = 1
    /\ InitRecorders
    /\ reconnect_states = [s \in Slots |-> DefaultReconnectState]
    /\ caps = [s \in Slots |-> Some([kind |-> "usb", index |-> s])]
    /\ indices = [s \in Slots |-> Some(s)]
    /\ camera_sources = [s \in Slots |-> Some([kind |-> "usb", index |-> s])]
    /\ handles = [s \in Slots |-> 1]
    /\ aobs = [op |-> "start_camera", slot |-> 1, success |-> TRUE]
    /\ files = {}
    /\ storage_limit \in 1 .. MaxLimit
    /\ qobs = NoRun
    /\ InitReconnect /\ InitZoom /\ InitCrop /\ InitThreads /\ InitTick

NextFrameTicks ==
    \/ \E s \in Slots : TickSlot(s)
    \/ TickReschedule
    \/ tick.pc = 0 /\ tick.n < MaxFrameTicks /\ \E s \in Slots : StopCamera(s)
    \/ tick.pc = 0 /\ tick.n < MaxFrameTicks /\ UpdateLayout

SpecFrameTicks == InitFrameTicks /\ [][NextFrameTicks]_vars

\* ------------------------------------------------------------- properties

\* the writers opened by the recorder of slot s and not released
Unreleased(s) ==
    {i \in DOMAIN writers :
        writers[i].slot = s /\ writers[i].opened /\ ~writers[i].released}

\* the step is a call of update on the recorder of slot s
UpdateStep(s) == hist'[s].ticks = hist[s].ticks + 1

LivePaths == {Some(RecordingPath(s, t, UnitsPerSec)) :
                 s \in Slots, t \in LiveBase .. (LiveBase + MaxStep)}

NewReturned(s, p) ==
    ret[s].new_event # None /\ ret[s].new_event[1].path = p

FinishedReturned(s, p) ==
    ret[s].finished_event # None /\ ret[s].finished_event[1].path = p

\* new_events and finished_events of a recorder alternate, beginning with a
\* new_event, and the k-th finished_event carries the path of the k-th new_event
Alternation(s) ==
    LET ne == hist[s].new_events
        fe == hist[s].finished_events
    IN  /\ Len(fe) <= Len(ne)
        /\ Len(ne) <= Len(fe) + 1
        /\ \A i \in DOMAIN fe : fe[i].path = ne[i].path
        /\ recording[s] <=> (Len(ne) = Len(fe) + 1)

\* C2 (as claimed): given continuous tick delivery, every update that returns a
\* new_event is eventually followed by exactly one update returning a
\* finished_event with the same path, and by no second new_event before it.
C2_EventPairing ==
    /\ \A p \in LivePaths : NewReturned(0, p) ~> FinishedReturned(0, p)
    /\ [](\A s \in Slots : Alternation(s))

\* C2 (amended): the same, provided motion_trigger is eventually false on every
\* update (the clock advancing): a recording lasts as long as triggers keep coming.
C2_PairingWhenMotionStops ==
    /\ \A p \in LivePaths :
          (<>[](~call[0].motion_trigger))
          => (NewReturned(0, p) ~> FinishedReturned(0, p))
    /\ [](\A s \in Slots : Alternation(s))

\* C2 witness: with a post-roll to wait for, an update without trigger has
\* returned the finished_event of a recording opened by an earlier update.
C2_Witness ==
    /\ cfg.post_seconds >= 1
    /\ ret[0].finished_event # None
    /\ ret[0].new_event = None
    /\ ~call[0].motion_trigger
    /\ ~recording[0]
    /\ Len(hist[0].new_events) = 1
    /\ ret[0].finished_event[1].path = hist[0].new_events[1].path

\* C3: in Idle and in Active state alike the pre-buffer never holds more than
\* int(pre_seconds * target_fps) entries.
C3_BoundedPrebuffer ==
    \A s \in Slots : Len(prebuffer[s]) <= Capacity(cfg, clock_res)

\* C3 witness: more update calls than the capacity were made, the buffer is full
\* and the recorder is Active.
C3_Witness ==
    /\ Capacity(cfg, clock_res) >= 2
    /\ hist[0].ticks > Capacity(cfg, clock_res)
    /\ Len(prebuffer[0]) = Capacity(cfg, clock_res)
    /\ recording[0]

\* C4 (as claimed): with T the time of the last update with motion_trigger=true of
\* a recording, the finished_event is returned by the first later update with
\* now - T >= post_seconds and by no earlier update (so never by the update at T).
C4_PostRollTiming ==
    \A s \in Slots :
        (hist[s].ticks > 0 /\ (call[s].was_recording \/ ret[s].new_event # None))
        => ((ret[s].finished_event # None)
            <=> (/\ ~call[s].motion_trigger
                 /\ call[s].time - hist[s].T >= cfg.post_seconds))

\* C5 (as claimed): the persons_max of a finished_event is the maximum person_count
\* over all update calls of the event, trigger and non-trigger alike.
C5_PersonsMaxAllTicks ==
    \A s \in Slots :
        ret[s].finished_event # None
        => ret[s].finished_event[1].persons_max = hist[s].seen_persons

\* C6 (as claimed): for every post_seconds >= 0 no update call returns both a
\* new_event and a finished_event.
C6_MutuallyExclusive ==
    \A s \in Slots : ~(ret[s].new_event # None /\ ret[s].finished_event # None)

\* C7: an update with motion_trigger=true in Idle state whose open fails (the
\* factory raises, returns None or returns an unopened writer) returns (None, None),
\* creates no event and leaves the recorder Idle without a writer; the next
\* trigger update attempts the open again.
C7_OpenFailure ==
    [][\A s \in Slots :
          /\ (UpdateStep(s) /\ call'[s].open \in OpenFailures)
             => /\ ret'[s] = [new_event |-> None, finished_event |-> None]
                /\ hist'[s].new_events = hist[s].new_events
                /\ ~recording'[s]
                /\ writer'[s] = 0
                /\ Unreleased(s)' = {}
          /\ (UpdateStep(s) /\ call[s].open \in OpenFailures
                /\ call'[s].motion_trigger)
             => /\ call'[s].open # "skip"
                /\ hist'[s].opens = hist[s].opens + 1]_vars

\* C7 witness: an open failed and the next attempt, on a later trigger update,
\* opened the recording.
C7_Witness ==
    /\ hist[0].opens = 2
    /\ call[0].open = "ok"
    /\ Len(hist[0].new_events) = 1
    /\ recording[0]

\* C8 (as claimed): with capacity 90 (pre = 3 s, fps = 30), after 90 updates without
\* trigger the update with motion_trigger=true returns a new_event and the opened
\* writer has received the frames of the 90 preceding calls followed by the
\* trigger call's own frame, and nothing else.
C8_PreRollOfNinety ==
    (Capacity(cfg, clock_res) = 90 /\ hist[0].ticks = 91)
    => /\ ret[0].new_event # None
       /\ writer[0] # 0
       /\ writers[writer[0]].frames = [i \in 1 .. 91 |-> i]

\* C9 (as claimed): after on_close no writer opened by any recorder is unreleased.
C9_ClosedReleasesWriters ==
    closed => \A s \in Slots : Unreleased(s) = {}

\* C10 (as claimed): no two new_events emitted by one recorder carry the same path.
C10_DistinctPaths ==
    \A s \in Slots :
        \A i, j \in DOMAIN hist[s].new_events :
            i # j => hist[s].new_events[i].path # hist[s].new_events[j].path

\* ------------------------------------------------------------- ReconnectState claims

\* now - last_attempt_time
SinceLastAttempt == rclock - rstate.last_attempt_time

\* the time since record_attempt() was last called, or since the time stamp
\* the object was built with
SinceRecorded ==
    IF robs.at # NoTime THEN rclock - robs.at ELSE rclock - rstate.last_attempt_time

\* C11: should_attempt() returns true exactly when enabled is true,
\* attempt < max_attempts and now - last_attempt_time is at least
\* min(base_delay * 2^attempt, max_delay); it returns false in every state
\* with enabled false.
C11_ShouldAttemptIff ==
    robs.op = "should_attempt" =>
        LET grown == rstate.base_delay * (2 ^ rstate.attempt)
            delay == IF grown <= rstate.max_delay THEN grown ELSE rstate.max_delay
        IN  /\ (robs.ret = Some(TRUE)) <=>
                   /\ rstate.enabled
                   /\ rstate.attempt < rstate.max_attempts
                   /\ SinceLastAttempt >= delay
            /\ robs.ret \in {Some(TRUE), Some(FALSE)}
            /\ ~rstate.enabled => robs.ret = Some(FALSE)

\* should_attempt() has returned true at the very end of the third window
C11_Witness ==
    /\ robs.op = "should_attempt"
    /\ robs.ret = Some(TRUE)
    /\ rstate.attempt = 2
    /\ rstate.base_delay = UnitsPerSec
    /\ SinceLastAttempt = 4 * UnitsPerSec

\* C12: with base_delay = 1 s, after the k-th record_attempt() (k = 1..4, within
\* max_attempts and below max_delay) should_attempt() is false for at least
\* 1 s, 2 s, 4 s, 8 s, and it is false at every instant before the delay the
\* current attempt count requires has elapsed, also right after record_attempt().
C12_BackoffWindows ==
    (/\ robs.op = "should_attempt"
     /\ rstate.base_delay = DefaultBaseDelay * UnitsPerSec) =>
        LET k == rstate.attempt
            window == (2 ^ (k - 1)) * UnitsPerSec
            required == rstate.base_delay * (2 ^ k)
        IN  /\ (/\ k \in 1 .. 4
                /\ k <= rstate.max_attempts
                /\ window <= rstate.max_delay
                /\ SinceRecorded < window) => robs.ret = Some(FALSE)
            /\ (/\ required <= rstate.max_delay
                /\ SinceRecorded < required) => robs.ret = Some(FALSE)

\* should_attempt() was asked just before the 8 s after the fourth
\* record_attempt() were over
C12_Witness ==
    /\ robs.op = "should_attempt"
    /\ robs.ret = Some(FALSE)
    /\ rstate.enabled
    /\ rstate.base_delay = DefaultBaseDelay * UnitsPerSec
    /\ rstate.attempt = 4
    /\ rstate.attempt < rstate.max_attempts
    /\ SinceRecorded = 8 * UnitsPerSec - 1

\* C13: with base_delay = 1 s and max_attempts = 3, each of three
\* record_attempt() calls made after delays of exactly 1 s, 2 s and 4 s is
\* made in a state where should_attempt() is true.
C13_ScenarioDAttemptsDue ==
    robs.op = "record_attempt" => robs.due = Some(TRUE)

\* the third record_attempt() has been made, 7 s after construction
C13_Witness ==
    /\ robs.op = "record_attempt"
    /\ robs.due = Some(TRUE)
    /\ rstate.attempt = ScenarioMaxAttempts
    /\ rclock - StartClock = 7 * UnitsPerSec

\* C14: once attempt >= max_attempts, should_attempt() returns false whatever
\* time has passed, and attempt stays at or above max_attempts until reset();
\* reset() sets attempt to 0 and last_attempt_time to 0 and changes no other
\* field.
C14_ExhaustedUntilReset ==
    [][/\ (robs'.op = "should_attempt" /\ rstate'.attempt >= rstate'.max_attempts)
              => robs'.ret = Some(FALSE)
       /\ (rstate.attempt >= rstate.max_attempts /\ robs'.op # "reset")
              => /\ rstate'.attempt >= rstate'.max_attempts
                 /\ ~ShouldAttempt(rstate', rclock')
       /\ robs'.op = "reset"
              => /\ rstate'.attempt = 0
                 /\ rstate'.last_attempt_time = 0
                 /\ rstate'.enabled = rstate.enabled
                 /\ rstate'.max_attempts = rstate.max_attempts
                 /\ rstate'.base_delay = rstate.base_delay
                 /\ rstate'.max_delay = rstate.max_delay]_vars

\* should_attempt() was asked long after the last of max_attempts attempts
C14_Witness ==
    /\ robs.op = "should_attempt"
    /\ robs.ret = Some(FALSE)
    /\ rstate.enabled
    /\ rstate.max_attempts = ScenarioMaxAttempts
    /\ rstate.attempt = rstate.max_attempts
    /\ SinceRecorded > rstate.max_delay

\* ------------------------------------------------------------- camera slot claims

\* C15 (as claimed): after a reconnection attempt for a slot has succeeded
\* (start_camera left an open capture in the slot) the slot's attempt count is
\* 0, and an attempt count returns to 0 only on such a success.
C15_AttemptResetOnSuccess ==
    [][/\ (aobs'.op = "attempt_reconnect" /\ aobs'.success)
              => reconnect_states'[aobs'.slot].attempt = 0
       /\ \A s \in Slots :
              (reconnect_states[s].attempt # 0 /\ reconnect_states'[s].attempt = 0)
                  => (aobs'.op = "attempt_reconnect" /\ aobs'.slot = s
                      /\ aobs'.success)]_vars

\* ------------------------------------------------------------- storage quota claims

\* the candidates the last run listed, and the total it started from
Candidates == {qobs.listed[i] : i \in DOMAIN qobs.listed}
InitialTotal == SumSizes(Candidates)
DistinctMtimes == \A f, g \in Candidates : f # g => f.mtime # g.mtime
NoUnlinkFailed == \A i \in DOMAIN qobs.log : qobs.log[i].ok

\* C16: over files of distinct modification times whose total exceeds the
\* limit, the enforcer unlinks in strictly ascending modification-time order:
\* a file is unlinked only after the unlink of every older candidate has been
\* tried.
C16_OldestFirst ==
    (qobs.op = "enforce" /\ DistinctMtimes /\ InitialTotal > qobs.limit_b) =>
        /\ \A i, j \in DOMAIN qobs.log :
               i < j => qobs.log[i].file.mtime < qobs.log[j].file.mtime
        /\ \A i \in DOMAIN qobs.log :
               qobs.log[i].ok =>
                   \A g \in Candidates :
                       g.mtime < qobs.log[i].file.mtime =>
                           \E j \in 1 .. (i - 1) : qobs.log[j].file = g

\* two files were unlinked, the older one carrying the later name
C16_Witness ==
    /\ qobs.op = "enforce"
    /\ DistinctMtimes
    /\ Len(qobs.log) >= 2
    /\ qobs.log[1].ok /\ qobs.log[2].ok
    /\ qobs.log[1].file.name > qobs.log[2].file.name
    /\ qobs.log[1].file.mtime < qobs.log[2].file.mtime

\* C17: when no unlink fails, the files unlinked are the shortest oldest-first
\* prefix whose removal brings the total of the files left to the limit or
\* under it: afterwards the total is <= limit or no file is left, no file is
\* unlinked at a total that was already <= limit, and nothing is unlinked
\* when the initial total is <= limit.
C17_ShortestPrefix ==
    (qobs.op = "enforce" /\ NoUnlinkFailed) =>
        LET deleted == Unlinked(qobs.log)
            left == Candidates \ deleted
        IN  /\ files = left
            /\ \A d \in deleted, r \in left : FileBefore(d, r)
            /\ SumSizes(files) <= qobs.limit_b \/ files = {}
            /\ \A d \in deleted :
                   SumSizes(left \cup {e \in deleted : FileBefore(d, e)}) > qobs.limit_b
            /\ InitialTotal <= qobs.limit_b => deleted = {}

\* two files went, one stayed, and the total left is at the limit
C17_Witness ==
    /\ qobs.op = "enforce"
    /\ NoUnlinkFailed
    /\ Cardinality(Unlinked(qobs.log)) = 2
    /\ files # {}
    /\ SumSizes(files) = qobs.limit_b

\* C18: an unlink that fails is survived: the running total keeps the size of
\* the file, and the loop goes on to the younger candidates, unlinking them
\* while the running total exceeds the limit.
C18_UnlinkFailure ==
    qobs.op = "enforce" =>
        /\ \A i \in DOMAIN qobs.log :
               /\ qobs.log[i].file = qobs.listed[i]
               /\ qobs.log[i].ok <=> qobs.log[i].file.name \notin qobs.failing
               /\ qobs.log[i].ok <=> qobs.log[i].file \notin files
               /\ qobs.log[i].total > qobs.limit_b
               /\ LET after == IF i < Len(qobs.log) THEN qobs.log[i + 1].total
                               ELSE qobs.total
                  IN  after = IF qobs.log[i].ok
                              THEN qobs.log[i].total - qobs.log[i].file.size
                              ELSE qobs.log[i].total
        /\ Len(qobs.log) = Len(qobs.listed) \/ qobs.total <= qobs.limit_b

\* the unlink of the oldest file failed and the next two files were unlinked
C18_Witness ==
    /\ qobs.op = "enforce"
    /\ Len(qobs.log) = 3
    /\ ~qobs.log[1].ok /\ qobs.log[2].ok /\ qobs.log[3].ok
    /\ qobs.log[2].total = qobs.log[1].total
    /\ qobs.log[1].file \in files

\* ------------------------------------------------------------- ZoomState claims

\* the factor the i-th call found
FactorBefore(i) == IF i = 1 THEN zobs.start.factor ELSE zobs.factors[i - 1]

\* |step|
StepSize == IF zoom.step >= 0 THEN zoom.step ELSE 0 - zoom.step

\* C19 (as claimed): for a ZoomState with min_factor <= max_factor whose factor
\* starts inside [min_factor, max_factor], factor is inside
\* [min_factor, max_factor] after any sequence of zoom_in, zoom_out, reset and
\* pan calls.
C19_FactorWithinBounds ==
    (/\ zobs.start.min_factor <= zobs.start.max_factor
     /\ zobs.start.factor >= zobs.start.min_factor
     /\ zobs.start.factor <= zobs.start.max_factor) =>
        /\ zoom.factor >= zoom.min_factor
        /\ zoom.factor <= zoom.max_factor

\* C19 (amended): for a ZoomState with min_factor <= 1.0 <= max_factor whose
\* factor starts inside [min_factor, max_factor], factor is inside
\* [min_factor, max_factor] after any sequence of zoom_in, zoom_out, reset and
\* pan calls.
C19_FactorWithinBoundsAroundOne ==
    (/\ zobs.start.min_factor <= ZoomOne
     /\ ZoomOne <= zobs.start.max_factor
     /\ zobs.start.factor >= zobs.start.min_factor
     /\ zobs.start.factor <= zobs.start.max_factor) =>
        /\ zoom.factor >= zoom.min_factor
        /\ zoom.factor <= zoom.max_factor

\* after a reset, zoom_in calls have run into max_factor
C19_Witness ==
    /\ zobs.start.min_factor <= ZoomOne
    /\ ZoomOne <= zobs.start.max_factor
    /\ zobs.start.factor = zobs.start.min_factor
    /\ zobs.start.factor # ZoomOne
    /\ zobs.ops = <<"reset", "zoom_in", "zoom_in", "zoom_in">>
    /\ FactorBefore(4) + StepSize > zoom.max_factor
    /\ zoom.factor = zoom.max_factor

\* C20: zoom_in() sets factor to min(max_factor, factor + |step|) and
\* zoom_out() to max(min_factor, factor - |step|); from 1.0 with step 0.25 and
\* max_factor 2.0 zoom_in gives 1.25, 1.5, 1.75, 2.0 and then stays at 2.0;
\* from 1.0 with min_factor 0.5 zoom_out gives 0.75, 0.5 and then stays at 0.5;
\* a zoom_in followed by a zoom_out, neither reaching a bound, returns to the
\* factor it started from.
C20_ZoomSteps ==
    LET n == Len(zobs.ops)
        only(op) == \A i \in 1 .. n : zobs.ops[i] = op
        scenario == zobs.start.factor = ZoomOne /\ zobs.start.step = DefaultStep
    IN  /\ \A i \in 1 .. n :
               /\ zobs.ops[i] = "zoom_in" =>
                      zobs.factors[i] =
                          IF FactorBefore(i) + StepSize <= zoom.max_factor
                          THEN FactorBefore(i) + StepSize ELSE zoom.max_factor
               /\ zobs.ops[i] = "zoom_out" =>
                      zobs.factors[i] =
                          IF FactorBefore(i) - StepSize >= zoom.min_factor
                          THEN FactorBefore(i) - StepSize ELSE zoom.min_factor
        /\ (scenario /\ zobs.start.max_factor = 2 * ZoomOne /\ only("zoom_in")) =>
               zobs.factors = SubSeq(<<5, 6, 7, 8, 8, 8, 8, 8>>, 1, n)
        /\ (scenario /\ zobs.start.min_factor = DefaultMinFactor /\ only("zoom_out")) =>
               zobs.factors = SubSeq(<<3, 2, 2, 2, 2, 2, 2, 2>>, 1, n)
        /\ \A i \in 1 .. (n - 1) :
               (/\ zobs.ops[i] = "zoom_in" /\ zobs.ops[i + 1] = "zoom_out"
                /\ FactorBefore(i) >= zoom.min_factor
                /\ FactorBefore(i) + StepSize <= zoom.max_factor) =>
                   zobs.factors[i + 1] = FactorBefore(i)

\* five zoom_in calls from 1.0 have been made up to 2.0
C20_Witness ==
    /\ zobs.start.factor = ZoomOne
    /\ zobs.start.step = DefaultStep
    /\ zobs.start.max_factor = 2 * ZoomOne
    /\ zobs.ops = <<"zoom_in", "zoom_in", "zoom_in", "zoom_in", "zoom_in">>
    /\ zobs.factors = <<5, 6, 7, 8, 8>>

\* ------------------------------------------------------------- crop_zoom claims
\* what the crop_zoom call gave, once it is made
CropCalled == crop.out # None
CropOut == crop.out[1]
ReturnedFrame == CropCalled /\ CropOut.kind = "frame"
OutHeight(o) == Cardinality(DOMAIN o.rows)
OutWidth(o) == Cardinality(DOMAIN o.cols)

\* C21: for every zoom factor above 1.0, every frame size and every pan input
\* (a normalized pair or a pair of pixel offsets, however far out of range),
\* the crop rectangle lies inside the frame: 0 <= x0, x0 + new_w <= w, 0 <= y0,
\* y0 + new_h <= h; the frame returned is that rectangle of the input, and its
\* size is the size the same frame and factor give with the default pan.
C21_CropInsideFrame ==
    (ReturnedFrame /\ crop.zoom_factor > ZoomOne) =>
        LET r == CropOut.rect
            f == crop.frame
            d == CropZoom(f, crop.zoom_factor, DefaultPan)
        IN  /\ 0 <= r.x /\ r.x + r.w <= f.w
            /\ 0 <= r.y /\ r.y + r.h <= f.h
            /\ CropOut.rows = [i \in 0 .. (r.h - 1) |-> r.y + i]
            /\ CropOut.cols = [i \in 0 .. (r.w - 1) |-> r.x + i]
            /\ OutHeight(CropOut) = OutHeight(d)
            /\ OutWidth(CropOut) = OutWidth(d)

\* a far pixel offset pushes the rectangle against the frame's right and top edges
C21_Witness ==
    /\ ReturnedFrame
    /\ crop.zoom_factor = 2 * ZoomOne
    /\ crop.frame.h = TestDim /\ crop.frame.w = TestDim
    /\ crop.pan.is_tuple /\ crop.pan.items = <<FarOffset, -FarOffset>>
    /\ CropOut.rect = [x |-> TestDim \div 2, y |-> 0, w |-> TestDim \div 2,
                       h |-> TestDim \div 2]

\* C22: crop_zoom(frame, 2.0, any pan) returns a frame whose height is exactly
\* floor(h / 2) and whose width is exactly floor(w / 2).
C22_HalfSizeFloor ==
    (ReturnedFrame /\ crop.zoom_factor = 2 * ZoomOne) =>
        /\ OutHeight(CropOut) = crop.frame.h \div 2
        /\ OutWidth(CropOut) = crop.frame.w \div 2

\* C23: at zoom factor 1.0 the frame returned equals the input in shape and in
\* every pixel, for the pan (0, 0), for the default pan, for every other
\* normalized pan and for every pair of pixel offsets; it is the input itself
\* or a view of all of it, never a canvas that was written.
C23_IdentityAtOne ==
    (ReturnedFrame /\ crop.zoom_factor = ZoomOne) =>
        /\ CropOut.ndim = crop.frame.ndim
        /\ CropOut.rows = WholeAxis(crop.frame.h)
        /\ CropOut.cols = WholeAxis(crop.frame.w)
        /\ CropOut.branch \in {"identity", "zoom_in"}
        /\ (crop.pan = DefaultPan => CropOut.same_object)

\* crop_zoom(frame, 1.0, 0, 0) goes through the crop and returns the whole frame
C23_Witness ==
    /\ ReturnedFrame
    /\ crop.zoom_factor = ZoomOne
    /\ crop.frame.h = TestDim /\ crop.frame.w = MaxDim
    /\ ~crop.pan.is_tuple /\ crop.pan.pan_x = 0 /\ crop.pan.pan_y = 0
    /\ CropOut.branch = "zoom_in"
    /\ CropOut.rect = [x |-> 0, y |-> 0, w |-> MaxDim, h |-> TestDim]

\* C24: for 0 < zoom_factor < 1.0 the output has the input's shape; the shrunken
\* frame fills one rectangle that lies inside the canvas, within a pixel of the
\* centre for the default pan, and every pixel outside the rectangle is zero
\* while every pixel inside shows the input, top-left to bottom-right; a 100x100
\* frame at 0.5 has its picture in the central 50x50 region.
C24_ZoomOutPadded ==
    (ReturnedFrame /\ 0 < crop.zoom_factor /\ crop.zoom_factor < ZoomOne) =>
        LET r == CropOut.rect
            f == crop.frame
        IN  /\ CropOut.ndim = f.ndim
            /\ OutHeight(CropOut) = f.h /\ OutWidth(CropOut) = f.w
            /\ r.w >= 1 /\ r.h >= 1
            /\ 0 <= r.x /\ r.x + r.w <= f.w
            /\ 0 <= r.y /\ r.y + r.h <= f.h
            /\ \A y \in 0 .. (f.h - 1) :
                  (CropOut.rows[y] # Blank) <=> (r.y <= y /\ y < r.y + r.h)
            /\ \A x \in 0 .. (f.w - 1) :
                  (CropOut.cols[x] # Blank) <=> (r.x <= x /\ x < r.x + r.w)
            /\ CropOut.rows[r.y] = 0 /\ CropOut.cols[r.x] = 0
            /\ r.h > 1 => CropOut.rows[r.y + r.h - 1] = f.h - 1
            /\ r.w > 1 => CropOut.cols[r.x + r.w - 1] = f.w - 1
            /\ \A y \in r.y .. (r.y + r.h - 2) : CropOut.rows[y] <= CropOut.rows[y + 1]
            /\ \A x \in r.x .. (r.x + r.w - 2) : CropOut.cols[x] <= CropOut.cols[x + 1]
            /\ crop.pan = DefaultPan =>
                  /\ Abs(r.x - (f.w - r.w - r.x)) <= 1
                  /\ Abs(r.y - (f.h - r.h - r.y)) <= 1
            /\ (crop.pan = DefaultPan /\ f.h = TestDim /\ f.w = TestDim
                  /\ 2 * crop.zoom_factor = ZoomOne) =>
                  r = [x |-> TestDim \div 4, y |-> TestDim \div 4,
                       w |-> TestDim \div 2, h |-> TestDim \div 2]

\* the 100x100 frame at 0.5: border rows and columns are zero, the centre is not
C24_Witness ==
    /\ ReturnedFrame
    /\ 2 * crop.zoom_factor = ZoomOne
    /\ crop.pan = DefaultPan
    /\ crop.frame.h = TestDim /\ crop.frame.w = TestDim
    /\ CropOut.rows[0] = Blank /\ CropOut.cols[0] = Blank
    /\ CropOut.rows[TestDim \div 2] # Blank /\ CropOut.cols[TestDim \div 2] # Blank

\* a far pixel offset leaves the shrunken frame against the canvas's edge
C24_WitnessClamped ==
    /\ ReturnedFrame
    /\ 2 * crop.zoom_factor = ZoomOne
    /\ crop.pan.is_tuple /\ crop.pan.items = <<FarOffset, -FarOffset>>
    /\ crop.frame.h = TestDim /\ crop.frame.w = TestDim
    /\ CropOut.rect.x = TestDim \div 2 /\ CropOut.rect.y = 0

\* C25: a frame that is not an array or has fewer than two dimensions, or a
\* zoom factor that is not positive, makes crop_zoom raise a validation error
\* (TypeError for a non-array, ValueError otherwise) at the validation, before
\* the pan arguments are looked at; no frame is returned, whatever the pan.
C25_InvalidRejected ==
    (CropCalled /\ (~crop.frame.is_array \/ crop.frame.ndim < 2
                     \/ crop.zoom_factor <= 0)) =>
        /\ CropOut.kind = "error"
        /\ CropOut.at \in {"validate_frame", "zoom_factor"}
        /\ ~crop.frame.is_array => CropOut.error = "TypeError"
        /\ crop.frame.is_array => CropOut.error = "ValueError"

\* a one-dimensional array with a valid factor and a pan tuple of three elements
C25_Witness ==
    /\ CropCalled
    /\ crop.frame.is_array /\ crop.frame.ndim = 1
    /\ crop.zoom_factor = ZoomOne
    /\ crop.pan.is_tuple /\ Len(crop.pan.items) = 3
    /\ CropOut = CropRaised("ValueError", "validate_frame")

\* ------------------------------------------------------------- ZoomState pan claims
\* C26: reset() sets factor to 1.0 and pan_x and pan_y to 0.0, whatever the
\* state before the call.
C26_ResetToZeroPan ==
    (zobs.ops # <<>> /\ zobs.ops[Len(zobs.ops)] = "reset") =>
        /\ zoom.factor = ZoomOne
        /\ zoom.pan_x = 0
        /\ zoom.pan_y = 0

\* the pan before the i-th pan call
PanBefore(i) == IF i = 1 THEN <<zobs.start.pan_x, zobs.start.pan_y>> ELSE zobs.pans[i - 1]

\* C27: pan(dx, dy) adds the deltas and clamps each coordinate to [-1.0, 1.0]:
\* from the default state pan(0.1, 0.1) then pan(-0.2, -0.2) give 0.6 then 0.4,
\* pan(2.0, 2.0) gives (1.0, 1.0) and a following pan(-4.0, -4.0) gives
\* (-1.0, -1.0).
C27_PanClampedToUnit ==
    /\ \A i \in 1 .. Len(zobs.pans) :
          zobs.pans[i] = <<Clip(PanBefore(i)[1] + zobs.deltas[i][1], -PanOne, PanOne),
                          Clip(PanBefore(i)[2] + zobs.deltas[i][2], -PanOne, PanOne)>>
    /\ (zobs.deltas = <<(<<1, 1>>), (<<-2, -2>>)>>) =>
          zobs.pans = <<(<<PanHalf + 1, PanHalf + 1>>), (<<PanHalf - 1, PanHalf - 1>>)>>
    /\ (zobs.deltas = <<(<<2 * PanOne, 2 * PanOne>>), (<<-4 * PanOne, -4 * PanOne>>)>>) =>
          zobs.pans = <<(<<PanOne, PanOne>>), (<<-PanOne, -PanOne>>)>>

\* ------------------------------------------------------------- worker thread claims
\* C28: what the background workers find (the USB cameras of
\* refresh_cameras_async, the network cameras of CameraScanner) reaches the
\* shared state only through the control thread: no worker thread assigns the
\* camera lists, the widgets or the collection of discovered cameras.
C28_WorkersHandOver == \A m \in muts : m[2] = "control"

\* ------------------------------------------------------------- pre-roll claims
\* the writer slot s opened last
LastWriterOf(s) ==
    CHOOSE i \in DOMAIN writers :
        /\ writers[i].slot = s
        /\ \A j \in DOMAIN writers : j > i => writers[j].slot # s

\* what the opening call of slot s wrote before the frame of the call itself
Flushed(s) ==
    LET fr == writers[LastWriterOf(s)].frames
    IN  SubSeq(fr, 1, Len(fr) - 1)

\* C29: the buffer holds the frames of the most recent min(calls so far,
\* capacity) calls, oldest first; on the call that opens a recording the frames
\* flushed are exactly the buffered ones whose timestamp is at least
\* now - pre_seconds, in arrival order.
C29_PreRollFlush ==
    \A s \in Slots :
        LET pb == prebuffer[s]
            n == hist[s].ticks
            len == Len(pb)
            cutoff == call[s].time - cfg.pre_seconds
        IN  /\ len = Min(n, Capacity(cfg, clock_res))
            /\ \A i \in 1 .. len : pb[i].frame = n - len + i
            /\ ret[s].new_event # None =>
                  /\ \A k \in 1 .. Len(Flushed(s)) :
                        \E i \in 1 .. len :
                            pb[i].frame = Flushed(s)[k] /\ pb[i].ts >= cutoff
                  /\ \A i \in 1 .. len :
                        pb[i].ts >= cutoff =>
                            \E k \in 1 .. Len(Flushed(s)) : Flushed(s)[k] = pb[i].frame
                  /\ \A k \in 1 .. (Len(Flushed(s)) - 1) :
                        Flushed(s)[k] < Flushed(s)[k + 1]

\* a recording opens on a full buffer that has lost its oldest frame and holds
\* a frame older than the pre-roll window
C29_Witness ==
    /\ ret[0].new_event # None
    /\ Len(prebuffer[0]) = Capacity(cfg, clock_res)
    /\ hist[0].ticks > Len(prebuffer[0])
    /\ Len(Flushed(0)) >= 2
    /\ Len(Flushed(0)) < Len(prebuffer[0])

\* C30: when a write raises inside update, in the pre-roll flush or while the
\* recorder is Active, the writer is released before the exception leaves
\* update: after such a call no writer the recorder opened is unreleased.
C30_ReleasedWhenWriteRaises ==
    \A s \in Slots :
        ret[s] = WriteRaised =>
            \A i \in DOMAIN writers :
                (writers[i].slot = s /\ writers[i].opened) => writers[i].released

\* ------------------------------------------------------------- reconnect budget

\* C39: when record_attempt() is called only where should_attempt() is true,
\* every reachable ReconnectState has 0 <= attempt <= max_attempts, whatever
\* the order of record_attempt, reset and switching auto-reconnect on and off.
C39_AttemptWithinBudget ==
    /\ 0 <= rstate.attempt
    /\ rstate.attempt <= rstate.max_attempts

\* the budget has just been used up by a guarded record_attempt made
\* while auto-reconnect is on
C39_Witness ==
    /\ robs.op = "record_attempt"
    /\ rstate.max_attempts > 0
    /\ rstate.attempt = rstate.max_attempts
    /\ rstate.enabled

\* ------------------------------------------------------------- reconnection attempts

\* C33 (as claimed): _attempt_reconnect records an attempt for a slot and
\* restarts its camera only in states where the slot's should_attempt() is
\* true: never while auto-reconnect is disabled, the attempts are exhausted or
\* the backoff window is still running.
C33_AttemptOnlyWhenDue ==
    [][aobs'.op = "attempt_reconnect"
          => ShouldAttempt(reconnect_states[aobs'.slot], rclock)]_vars

\* ------------------------------------------------------------- camera refresh claims

\* a step of refresh_cameras_async
RefreshRequested == refresh'.calls = refresh.calls + 1

\* C35: at most one camera-enumeration worker runs at any time; a request
\* made while a worker runs starts no worker and only reports that a refresh
\* is running; the lock is free whenever no worker runs, so a request made
\* then starts a new worker.
C35_OneRefreshWorker ==
    /\ [](Cardinality(RunningRefreshWorkers(refresh)) <= 1)
    /\ [](RunningRefreshWorkers(refresh) = {} => ~refresh.lock)
    /\ [][RefreshRequested =>
            IF RunningRefreshWorkers(refresh) # {}
            THEN /\ refresh'.workers = refresh.workers
                 /\ ui'.status = "refresh_running"
                 /\ UNCHANGED <<after_queue, cameraVars>>
            ELSE /\ Len(refresh'.workers) = Len(refresh.workers) + 1
                 /\ RunningRefreshWorkers(refresh') = {Len(refresh'.workers)}]_vars

\* a second request has been turned away while the first worker was running,
\* and that worker's list_cameras() raised
C35_Witness ==
    /\ refresh.calls = 2
    /\ Len(refresh.workers) = 1
    /\ refresh.workers[1].pc = "release"
    /\ refresh.workers[1].raised
    /\ ui.status = "refresh_running"

\* a request made after a worker whose list_cameras() raised has ended has
\* started the next worker
C35_WitnessAfterFailure ==
    /\ Len(refresh.workers) = 2
    /\ refresh.workers[1].pc = "done"
    /\ refresh.workers[1].raised
    /\ refresh.workers[2].pc = "listing"

\* ------------------------------------------------------------- network scan claims

\* C40 (as claimed): at most one scan worker runs at any time, and every
\* camera in found_cameras was added by the worker of the scan started last:
\* the worker of a stopped scan probes nothing more and adds nothing to the
\* next scan's found_cameras.
C40_OneScanWorker ==
    /\ Cardinality(RunningScanWorkers(scanner)) <= 1
    /\ \A k \in DOMAIN scanner.found_cameras :
          scanner.found_cameras[k].by = Len(scanner.workers)

\* ------------------------------------------------------------- written frames

\* C36 (as claimed): no frame is written to a recording's writer more than
\* once and the frames of a file are in tick order: across the pre-roll flush
\* of the opening tick and the write of every Active tick, the frame numbers
\* of each writer are strictly increasing.
C36_EachFrameOnce ==
    \A i \in DOMAIN writers :
        \A j, k \in DOMAIN writers[i].frames :
            j < k => writers[i].frames[j] < writers[i].frames[k]

\* ------------------------------------------------------------- capture handle claims

\* C34: for each slot at most one opened capture is unreleased; while the
\* window exists the unreleased capture of a slot is the one stored in
\* caps[slot] (start_camera has released the previous one, a failed open has
\* left none and nothing stored), and after on_close none is unreleased.
C34_OneCapturePerSlot ==
    \A s \in Slots :
        /\ handles[s] \in {0, 1}
        /\ ~closed => (handles[s] = 1 <=> caps[s] # None)
        /\ closed => handles[s] = 0
        /\ (aobs.slot = s /\ ~aobs.success /\ ~closed
              /\ aobs.op \in {"start_camera", "on_select_camera"}) =>
                 (caps[s] = None /\ handles[s] = 0)

\* the window has been closed with a capture stored for both slots, the
\* second one started by update_layout
C34_Witness ==
    /\ closed
    /\ aobs.op = "update_layout"
    /\ caps[0] # None /\ caps[1] # None
    /\ camera_sources[0] # camera_sources[1]

\* a slot that showed one camera has been switched to another that failed to
\* open
C34_WitnessFailedOpen ==
    /\ aobs.op = "on_select_camera" /\ ~aobs.success
    /\ caps[aobs.slot] = None
    /\ camera_sources[aobs.slot] # None
    /\ caps[1 - aobs.slot] # None

\* ------------------------------------------------------------- tick loop claims

\* the turn of the loop for slot s is taken by this step
TurnOf(s) == tick.pc = s /\ tick'.pc # tick.pc

\* the recorder of slot s and the writers it owns
RecorderOf(s) ==
    <<prebuffer[s], writer[s], recording[s], last_motion_ts[s], start_ts[s],
      event_path[s], persons_max[s], hist[s],
      [i \in {j \in DOMAIN writers : writers[j].slot = s} |-> writers[i]]>>

\* C31 (as claimed): every finished_event the orchestrator handles is followed,
\* in the same turn of the tick loop and so before the next tick, by a pass of
\* the quota enforcer.
C31_EnforcedAfterFinish ==
    \A i \in DOMAIN tick.handlers :
        tick.handlers[i] = "handle_finished_event" =>
            \E j \in DOMAIN tick.handlers :
                j > i /\ tick.handlers[j] = "enforce_storage_limit"

\* C32 (as claimed): on every tick the recorder of each slot on show is
\* updated exactly once, in slot order, also when the slot's read fails or
\* its camera has been stopped.
C32_UpdatedEveryTick ==
    [][\A s \in Slots :
          (TurnOf(s) /\ SlotLive(s)) => hist'[s].ticks = hist[s].ticks + 1]_vars

\* C37 (as claimed): the file of a recording that is Active (its writer open)
\* on either slot is in the directory: no pass of the quota enforcer has
\* deleted it.
C37_ActiveFileKept ==
    \A s \in Slots :
        (recording[s] /\ writer[s] # 0) =>
            \E f \in files : f.name = RecordingName(writers[writer[s]].path)

\* C38: an exception raised in the turn of one slot (at the read, the
\* detection, the zoom or the recorder update) leaves the recorder of the
\* other slot as it was and is followed by the turn of the next slot in the
\* same tick; the turn of slot 1 is followed by the rescheduling, so a tick
\* that is over has always scheduled the next one.
C38_SlotsIsolated ==
    /\ [](tick.pc = 0 => tick.scheduled)
    /\ [][\A s \in Slots :
            (TurnOf(s) /\ tick'.outcome[s] \in {"raised", "update_raised"}) =>
                /\ tick'.pc = s + 1
                /\ tick'.n = tick.n
                /\ RecorderOf(1 - s)' = RecorderOf(1 - s)]_vars
    /\ [][tick.pc = NumSlots => (tick'.pc = 0 /\ tick'.scheduled)]_vars

\* a tick is over and rescheduled in which the recorder update of slot 0
\* raised at a write and slot 1, recording, was updated all the same
C38_Witness ==
    /\ tick.pc = 0 /\ tick.n >= 1 /\ tick.scheduled
    /\ tick.outcome[0] = "update_raised"
    /\ tick.outcome[1] = "updated"
    /\ recording[1] /\ Len(writers[writer[1]].frames) > 2

====
